---- MODULE Spec2Model ----
(***************************************************************************)
(* Model of the vibe-maps trip planner: the route segmenter and the        *)
(* haversine distance of the mapbox service, the waypoint handling of the  *)
(* planning page (handleSubmit) and the request built by getDirections.    *)
(*                                                                         *)
(* JavaScript numbers are modelled in fixed point: angles and the          *)
(* haversine terms are integers in units of 1/Scale, distances are whole   *)
(* metres, durations whole seconds.  Coordinates are [lon, lat] pairs in   *)
(* whole degrees.  JavaScript `undefined` is the empty tuple.              *)
(***************************************************************************)
EXTENDS Integers, Sequences, FiniteSets, TLC

\* ------------------------------------------------------------------------
\* Bounds of the model
\* ------------------------------------------------------------------------
MaxLen == 4

\* ------------------------------------------------------------------------
\* Numbers
\* ------------------------------------------------------------------------
Scale == 10000

PI == 31416

R == 6371000

SecondsPerHour == 3600

RatioScale == 100

Undefined == << >>

Abs(x) == IF x < 0 THEN -x ELSE x

RECURSIVE SqrtSearch(_, _, _)
SqrtSearch(n, lo, hi) ==
    IF lo >= hi THEN lo
    ELSE LET mid == (lo + hi + 1) \div 2
         IN  IF mid * mid <= n THEN SqrtSearch(n, mid, hi)
                               ELSE SqrtSearch(n, lo, mid - 1)

\* Math.sqrt of a fixed-point value v (units 1/Scale), 0 <= v <= Scale
Sqrt(v) == SqrtSearch(v * Scale, 0, Scale)

\* Math.sin on [0, PI/2]: Taylor polynomial of degree 7
SinPos(x) ==
    LET x2 == (x * x) \div Scale
        t3 == (x2 * x) \div Scale
        t5 == (t3 * x2) \div Scale
        t7 == (t5 * x2) \div Scale
    IN  x - (t3 \div 6) + (t5 \div 120) - (t7 \div 5040)

\* Math.sin for |x| <= 2*PI
Sin(x) ==
    LET ax == Abs(x) % (2 * PI)
        sg == IF x < 0 THEN -1 ELSE 1
        s2 == IF ax > PI THEN -sg ELSE sg
        y  == IF ax > PI THEN ax - PI ELSE ax
        z  == IF y > PI \div 2 THEN PI - y ELSE y
    IN  s2 * SinPos(z)

\* Math.cos for |x| <= PI
Cos(x) ==
    IF Abs(x) <= PI \div 2 THEN Sin(PI \div 2 - Abs(x))
                           ELSE -Sin(Abs(x) - PI \div 2)

\* arctangent on [0, tan(PI/8)]: Taylor polynomial of degree 7
AtanSmall(t) ==
    LET t2 == (t * t) \div Scale
        t3 == (t2 * t) \div Scale
        t5 == (t3 * t2) \div Scale
        t7 == (t5 * t2) \div Scale
    IN  t - (t3 \div 3) + (t5 \div 5) - (t7 \div 7)

\* arctangent on [0, 1] by the half-angle reduction
AtanUnit(t) ==
    LET r == (t * Scale) \div (Scale + SqrtSearch(Scale * Scale + t * t, 0, 2 * Scale))
    IN  2 * AtanSmall(r)

\* Math.atan2(y, x) for y >= 0, x >= 0
Atan2(y, x) ==
    IF y = 0 THEN 0
    ELSE IF x = 0 THEN PI \div 2
    ELSE IF y <= x THEN AtanUnit((y * Scale) \div x)
    ELSE (PI \div 2) - AtanUnit((x * Scale) \div y)

\* deg * Math.PI / 180
ToRadians(deg) ==
    IF deg >= 0 THEN (deg * PI) \div 180 ELSE -(((-deg) * PI) \div 180)

Half(v) == IF v >= 0 THEN v \div 2 ELSE -((-v) \div 2)

\* the haversine term `a` of calculateDistance
HaversineAOneLatitude(coord1, coord2) ==
    LET lon1 == coord1[1]
        lat1 == coord1[2]
        lon2 == coord2[1]
        lat2 == coord2[2]
        phi1 == ToRadians(lat1)
        dphi == ToRadians(lat2 - lat1)
        dlam == ToRadians(lon2 - lon1)
        sp   == Sin(Half(dphi))
        sl   == Sin(Half(dlam))
    IN  ((sp * sp) \div Scale)
          + ((((Cos(phi1) * Cos(phi1)) \div Scale) * ((sl * sl) \div Scale)) \div Scale)

HaversineA(coord1, coord2) ==
    LET lon1 == coord1[1]
        lat1 == coord1[2]
        lon2 == coord2[1]
        lat2 == coord2[2]
        phi1 == ToRadians(lat1)
        phi2 == ToRadians(lat2)
        dphi == ToRadians(lat2 - lat1)
        dlam == ToRadians(lon2 - lon1)
        sp   == Sin(Half(dphi))
        sl   == Sin(Half(dlam))
    IN  ((sp * sp) \div Scale)
          + ((((Cos(phi1) * Cos(phi2)) \div Scale) * ((sl * sl) \div Scale)) \div Scale)

\* calculateDistance: great-circle distance in metres
calculateDistance(coord1, coord2) ==
    LET a == HaversineA(coord1, coord2)
        c == 2 * Atan2(Sqrt(a), Sqrt(Scale - a))
    IN  ((R \div 1000) * c) \div (Scale \div 1000)

\* ------------------------------------------------------------------------
\* JavaScript arrays (0-based) over TLA+ sequences (1-based)
\* ------------------------------------------------------------------------
\* arr[k]: undefined outside the array
At(arr, k) == IF k >= 0 /\ k < Len(arr) THEN arr[k + 1] ELSE Undefined

\* arr.slice(from, to) for 0 <= from
Slice(arr, from, to) ==
    SubSeq(arr, from + 1, IF to > Len(arr) THEN Len(arr) ELSE to)

Range(arr) == {arr[k] : k \in 1..Len(arr)}

\* ------------------------------------------------------------------------
\* Inputs of segmentRoute
\* ------------------------------------------------------------------------
Coords == {<<-122, 38>>, <<-112, 34>>, <<-100, 40>>}

CoordSeqs == UNION {[1..n -> Coords] : n \in 0..MaxLen}

Distances == {1000000, 3000000}

Durations == {18000, 54000}

TargetHours == {2, 5, 8}

\* a DirectionsResult; shape tells which of the parts exist
DirectionsResult(shape, coordinates, dist, dur) ==
    [shape |-> shape, coordinates |-> coordinates,
     distance |-> dist, duration |-> dur]

NullRoute == DirectionsResult("null", << >>, 0, 0)

MalformedRoutes ==
    {NullRoute}
      \cup {DirectionsResult(sh, << >>, d, t) :
              sh \in {"noGeometry", "noCoordinates"}, d \in Distances, t \in Durations}

WellFormedRoutes ==
    {DirectionsResult("ok", cs, d, t) :
       cs \in CoordSeqs, d \in Distances, t \in Durations}

Routes == MalformedRoutes \cup WellFormedRoutes

VARIABLES
    sr_directionsData,      \* segmentRoute: argument directionsData
    sr_targetHours,         \* segmentRoute: argument targetDrivingHoursPerSegment
    sr_pc,                  \* segmentRoute: "call", "loop" or "done"
    i,                      \* segmentRoute: loop index
    currentSegmentStart,
    accumulatedDuration,
    accumulatedDistance,
    segments,
    sr_result               \* segmentRoute: returned list

srVars == <<sr_directionsData, sr_targetHours, sr_pc, i, currentSegmentStart,
            accumulatedDuration, accumulatedDistance, segments, sr_result>>

VARIABLES
    originLocation,         \* page: selected origin, NoLocation when null
    destinationLocation,    \* page: selected destination, NoLocation when null
    directionsData,         \* page: the current route, NullRoute when null
    loading,
    error,
    distance,               \* page: formatted distance
    duration,               \* page: formatted duration
    routeSegments,
    segmentPOIs,            \* page: Map from index to POI list
    loadingPOIs,
    routeId,
    hs_pc,                  \* handleSubmit: where the invocation is suspended
    placesRecommendation,   \* handleSubmit: the recommender's answer
    routePOIs,              \* handleSubmit: local routePOIs
    directionsRequest,      \* getDirections: coordinates of the request in flight
    poiRequest,             \* findDestinationPOIs: arguments of the call in flight
    latest,                 \* the invocation of handleSubmit started last
    directionsCalls,        \* calls of getDirections by each invocation
    directionsResult,       \* what getDirections resolved to for each invocation
    now                     \* Date.now()

pageVars == <<originLocation, destinationLocation, directionsData, loading, error,
              distance, duration, routeSegments, segmentPOIs, loadingPOIs, routeId,
              hs_pc, placesRecommendation, routePOIs, directionsRequest, poiRequest,
              latest, directionsCalls, directionsResult, now>>

VARIABLES
    targetDrivingHoursPerSegment,   \* page with segments: the slider's value
    showDestinationPOIs,            \* page with segments: the toggle
    pendingPOIFetches               \* calls of fetchDestinationPOIs by the toggle

tripVars == <<targetDrivingHoursPerSegment, showDestinationPOIs, pendingPOIFetches>>

VARIABLES
    sc_oldSegments,         \* change detector: routeSegments
    sc_newSegments,         \* change detector: newSegments
    sc_pc,                  \* change detector: "call" or "done"
    sc_segmentsChanged      \* change detector: segmentsChanged

scVars == <<sc_oldSegments, sc_newSegments, sc_pc, sc_segmentsChanged>>

VARIABLES
    fd_coordinate,          \* findDestinationPOIs: argument coordinate
    fd_placeName,           \* findDestinationPOIs: argument placeName
    fd_pc,                  \* findDestinationPOIs: "call", "await" or "done"
    fd_reply,               \* findDestinationPOIs: what the recommender met
    fd_outcome              \* findDestinationPOIs: how the call ended

fdVars == <<fd_coordinate, fd_placeName, fd_pc, fd_reply, fd_outcome>>

VARIABLES
    gd_origin,              \* getDirections: argument origin
    gd_destination,         \* getDirections: argument destination
    gd_waypoints,           \* getDirections: argument waypoints
    gd_pc,                  \* getDirections: "call", "await" or "done"
    gd_request,             \* getDirections: coordinates of the request
    gd_response,            \* getDirections: what fetch and json() did
    gd_outcome              \* getDirections: how the call ended

gdVars == <<gd_origin, gd_destination, gd_waypoints, gd_pc, gd_request, gd_response,
            gd_outcome>>

VARIABLES
    cd_coord1,              \* calculateDistance: argument coord1
    cd_coord2,              \* calculateDistance: argument coord2
    cd_pc,                  \* calculateDistance: "call" or "done"
    cd_result               \* calculateDistance: returned distance

cdVars == <<cd_coord1, cd_coord2, cd_pc, cd_result>>

VARIABLES
    map_origin,             \* MapComponent: prop origin, Undefined when null
    map_destination,        \* MapComponent: prop destination
    previousOrigin,
    previousDestination,
    originMarker,           \* MapComponent: Undefined when null
    destinationMarker,
    attached,               \* the markers that are on the map
    mapInitialized,
    microtasks,             \* the event loop's queue of microtasks
    um_pc,                  \* updateMarkers: the await each run is suspended at
    um_marker,              \* updateMarkers: the marker createCatMarker resolves to
    markersCreated,         \* calls of new mapboxgl.Marker so far
    map_events              \* prop updates so far

mkVars == <<map_origin, map_destination, previousOrigin, previousDestination,
            originMarker, destinationMarker, attached, mapInitialized, microtasks,
            um_pc, um_marker, markersCreated, map_events>>

VARIABLES
    ac_value,               \* LocationAutocomplete: value, a sequence of characters
    suggestions,
    ac_loading,             \* LocationAutocomplete: loading
    selectedIndex,
    debounceTimer,          \* LocationAutocomplete: id of the timer set last
    timers,                 \* the timers of setTimeout(handleInput, 300) not yet fired
    searches,               \* the calls of searchLocations handleInput is awaiting
    sinceChange,            \* milliseconds since value changed last, up to DebounceMs
    timersCreated,          \* calls of setTimeout so far
    searchesIssued,         \* calls of searchLocations so far
    shownSearch             \* the call whose answer was stored in suggestions last

acVars == <<ac_value, suggestions, ac_loading, selectedIndex, debounceTimer, timers,
            searches, sinceChange, timersCreated, searchesIssued, shownSearch>>

VARIABLES
    cf_preferences,         \* category filter: argument preferences
    cf_places,              \* category filter: result.recommendedPlaces as parsed
    cf_pc,                  \* category filter: "call" or "done"
    cf_result               \* category filter: result.recommendedPlaces as returned

cfVars == <<cf_preferences, cf_places, cf_pc, cf_result>>

VARIABLES
    fs_segments,            \* findSegmentPOIs: argument segments
    fs_i,                   \* findSegmentPOIs: loop index i
    fs_pc,                  \* findSegmentPOIs: "call", "lookup", "pause" or "done"
    fs_segmentPOIs          \* findSegmentPOIs: the Map it builds and returns

fsVars == <<fs_segments, fs_i, fs_pc, fs_segmentPOIs>>

vars == <<srVars, pageVars, tripVars, scVars, fdVars, gdVars, cdVars, mkVars, acVars,
          cfVars, fsVars>>

notPageVars == <<srVars, tripVars, scVars, fdVars, gdVars, cdVars, mkVars, acVars,
                 cfVars, fsVars>>

notSegVars == <<pageVars, tripVars, scVars, fdVars, gdVars, cdVars, mkVars, acVars,
                cfVars, fsVars>>

notTripVars == <<srVars, scVars, fdVars, gdVars, cdVars, mkVars, acVars, cfVars,
                 fsVars>>

notScVars == <<srVars, pageVars, tripVars, fdVars, gdVars, cdVars, mkVars, acVars,
               cfVars, fsVars>>

notFdVars == <<srVars, tripVars, scVars, gdVars, cdVars, mkVars, acVars, cfVars,
               fsVars>>

notGdVars == <<srVars, pageVars, tripVars, scVars, fdVars, cdVars, mkVars, acVars,
               cfVars, fsVars>>

notCdVars == <<srVars, pageVars, tripVars, scVars, fdVars, gdVars, mkVars, acVars,
               cfVars, fsVars>>

notMkVars == <<srVars, pageVars, tripVars, scVars, fdVars, gdVars, cdVars, acVars,
               cfVars, fsVars>>

notAcVars == <<srVars, pageVars, tripVars, scVars, fdVars, gdVars, cdVars, mkVars,
               cfVars, fsVars>>

notCfVars == <<srVars, pageVars, tripVars, scVars, fdVars, gdVars, cdVars, mkVars,
               acVars, fsVars>>

notFsVars == <<srVars, pageVars, tripVars, scVars, fdVars, gdVars, cdVars, mkVars,
               acVars, cfVars>>


\* ------------------------------------------------------------------------
\* The planning page: state after construction
\* ------------------------------------------------------------------------
NoLocation == [place_name |-> "", center |-> Undefined]

\* invocations of handleSubmit that may be suspended at the same time
MaxSubmissions == 2

Slots == 1..MaxSubmissions

NoError == "null"

\* new Map()
EmptyMap == << >>

PageInit ==
    /\ originLocation = NoLocation
    /\ destinationLocation = NoLocation
    /\ directionsData = NullRoute
    /\ loading = FALSE
    /\ error = NoError
    /\ distance = ""
    /\ duration = ""
    /\ routeSegments = << >>
    /\ segmentPOIs = EmptyMap
    /\ loadingPOIs = FALSE
    /\ routeId = ""
    /\ hs_pc = [k \in Slots |-> "idle"]
    /\ placesRecommendation = [k \in Slots |-> Undefined]
    /\ routePOIs = [k \in Slots |-> << >>]
    /\ directionsRequest = [k \in Slots |-> << >>]
    /\ poiRequest = [k \in Slots |-> Undefined]
    /\ latest = 0
    /\ directionsCalls = [k \in Slots |-> 0]
    /\ directionsResult = [k \in Slots |-> Undefined]
    /\ now = 0

\* segmentRoute is not running on its own
SegIdle ==
    /\ sr_directionsData = NullRoute
    /\ sr_targetHours = 5
    /\ sr_pc = "done"
    /\ i = 0
    /\ currentSegmentStart = 0
    /\ accumulatedDuration = 0
    /\ accumulatedDistance = 0
    /\ segments = << >>
    /\ sr_result = << >>

\* the runs of updateMarkers that can be suspended at the same time
MaxRuns == 2

Runs == 1..MaxRuns

\* the map component is not mounted
MkIdle ==
    /\ map_origin = Undefined
    /\ map_destination = Undefined
    /\ previousOrigin = Undefined
    /\ previousDestination = Undefined
    /\ originMarker = Undefined
    /\ destinationMarker = Undefined
    /\ attached = {}
    /\ mapInitialized = FALSE
    /\ microtasks = << >>
    /\ um_pc = [k \in Runs |-> "idle"]
    /\ um_marker = [k \in Runs |-> Undefined]
    /\ markersCreated = 0
    /\ map_events = 0

\* no LocationAutocomplete is mounted
AcIdle ==
    /\ ac_value = << >>
    /\ suggestions = << >>
    /\ ac_loading = FALSE
    /\ selectedIndex = -1
    /\ debounceTimer = 0
    /\ timers = {}
    /\ searches = {}
    /\ sinceChange = 0
    /\ timersCreated = 0
    /\ searchesIssued = 0
    /\ shownSearch = 0

\* the category filter is not running on its own
CfIdle ==
    /\ cf_preferences = Undefined
    /\ cf_places = Undefined
    /\ cf_pc = "done"
    /\ cf_result = Undefined

\* findSegmentPOIs is not running on its own
FsIdle ==
    /\ fs_segments = << >>
    /\ fs_i = 0
    /\ fs_pc = "done"
    /\ fs_segmentPOIs = EmptyMap

\* calculateDistance is not running on its own
CdIdle ==
    /\ cd_coord1 = Undefined
    /\ cd_coord2 = Undefined
    /\ cd_pc = "done"
    /\ cd_result = 0

\* getDirections is not running on its own
GdIdle ==
    /\ gd_origin = Undefined
    /\ gd_destination = Undefined
    /\ gd_waypoints = Undefined
    /\ gd_pc = "done"
    /\ gd_request = << >>
    /\ gd_response = Undefined
    /\ gd_outcome = Undefined

\* findDestinationPOIs is not running on its own
FdIdle ==
    /\ fd_coordinate = Undefined
    /\ fd_placeName = ""
    /\ fd_pc = "done"
    /\ fd_reply = Undefined
    /\ fd_outcome = Undefined

\* the change detector is not running
DetectIdle ==
    /\ sc_oldSegments = << >>
    /\ sc_newSegments = << >>
    /\ sc_pc = "done"
    /\ sc_segmentsChanged = FALSE

\* the page that splits the route into segments: its further state
TripIdle ==
    /\ targetDrivingHoursPerSegment = 5
    /\ showDestinationPOIs = TRUE
    /\ pendingPOIFetches = << >>

\* ------------------------------------------------------------------------
\* segmentRoute
\* ------------------------------------------------------------------------
\* !directionsData || !directionsData.geometry || !directionsData.geometry.coordinates
IsInvalidRoute(dd) == dd.shape # "ok"

FitsOneSegmentStrict(dd, targetHours) == dd.duration < targetHours * SecondsPerHour

\* totalDurationHours <= targetDrivingHoursPerSegment
FitsOneSegment(dd, targetHours) == dd.duration <= targetHours * SecondsPerHour

targetDurationSeconds(targetHours) == targetHours * SecondsPerHour

\* totalDistance / directionsData.duration, in units of 1/RatioScale m/s
distanceTimeRatio(dd) == (dd.distance * RatioScale) \div dd.duration

\* segmentDistance / distanceTimeRatio
estimatedDuration(segmentDistance, ratio) == (segmentDistance * RatioScale) \div ratio

\* the segment returned for a trip shorter than the target
WholeRouteSegment(dd) ==
    [startIndex      |-> 0,
     endIndex        |-> Len(dd.coordinates) - 1,
     startCoordinate |-> At(dd.coordinates, 0),
     endCoordinate   |-> At(dd.coordinates, Len(dd.coordinates) - 1),
     distance        |-> dd.distance,
     duration        |-> dd.duration,
     coordinates     |-> dd.coordinates]

ShouldCloseOnTargetOnly(accDuration, target, idx, len) == accDuration >= target

\* accumulatedDuration >= targetDurationSeconds || i === coordinates.length - 1
ShouldClose(accDuration, target, idx, len) ==
    accDuration >= target \/ idx = len - 1

MakeSegmentWithoutLastEdge(coordinates, start, idx, accDistance, accDuration) ==
    [startIndex      |-> start,
     endIndex        |-> idx,
     startCoordinate |-> At(coordinates, start),
     endCoordinate   |-> At(coordinates, idx),
     distance        |-> accDistance
                           - calculateDistance(At(coordinates, idx - 1), At(coordinates, idx)),
     duration        |-> accDuration,
     coordinates     |-> Slice(coordinates, start, idx + 1)]

MakeSegmentExclusiveSlice(coordinates, start, idx, accDistance, accDuration) ==
    [startIndex      |-> start,
     endIndex        |-> idx,
     startCoordinate |-> At(coordinates, start),
     endCoordinate   |-> At(coordinates, idx),
     distance        |-> accDistance,
     duration        |-> accDuration,
     coordinates     |-> Slice(coordinates, start, idx)]

\* the segment pushed when a boundary is reached at index idx
MakeSegment(coordinates, start, idx, accDistance, accDuration) ==
    [startIndex      |-> start,
     endIndex        |-> idx,
     startCoordinate |-> At(coordinates, start),
     endCoordinate   |-> At(coordinates, idx),
     distance        |-> accDistance,
     duration        |-> accDuration,
     coordinates     |-> Slice(coordinates, start, idx + 1)]

NextSegmentStartAfter(idx) == idx + 1

\* currentSegmentStart = i
NextSegmentStart(idx) == idx

ResetAccumulatorKeep(acc) == acc

\* accumulatedDuration = 0; accumulatedDistance = 0
ResetAccumulator(acc) == 0

segmentRouteInvalid ==
    /\ sr_pc = "call"
    /\ IsInvalidRoute(sr_directionsData)
    /\ sr_result' = << >>
    /\ sr_pc' = "done"
    /\ UNCHANGED <<sr_directionsData, sr_targetHours, i, currentSegmentStart,
                   accumulatedDuration, accumulatedDistance, segments>>

segmentRouteWhole ==
    /\ sr_pc = "call"
    /\ ~IsInvalidRoute(sr_directionsData)
    /\ FitsOneSegment(sr_directionsData, sr_targetHours)
    /\ sr_result' = <<WholeRouteSegment(sr_directionsData)>>
    /\ sr_pc' = "done"
    /\ UNCHANGED <<sr_directionsData, sr_targetHours, i, currentSegmentStart,
                   accumulatedDuration, accumulatedDistance, segments>>

segmentRouteBegin ==
    /\ sr_pc = "call"
    /\ ~IsInvalidRoute(sr_directionsData)
    /\ ~FitsOneSegment(sr_directionsData, sr_targetHours)
    /\ segments' = << >>
    /\ currentSegmentStart' = 0
    /\ accumulatedDuration' = 0
    /\ accumulatedDistance' = 0
    /\ i' = 1
    /\ sr_pc' = "loop"
    /\ UNCHANGED <<sr_directionsData, sr_targetHours, sr_result>>

segmentRouteLoop ==
    /\ sr_pc = "loop"
    /\ i < Len(sr_directionsData.coordinates)
    /\ LET coordinates     == sr_directionsData.coordinates
           segmentDistance == calculateDistance(At(coordinates, i - 1), At(coordinates, i))
           newDuration     == accumulatedDuration
                                + estimatedDuration(segmentDistance,
                                                    distanceTimeRatio(sr_directionsData))
           newDistance     == accumulatedDistance + segmentDistance
       IN  IF ShouldClose(newDuration, targetDurationSeconds(sr_targetHours),
                          i, Len(coordinates))
           THEN /\ segments' = Append(segments,
                                      MakeSegment(coordinates, currentSegmentStart, i,
                                                  newDistance, newDuration))
                /\ currentSegmentStart' = NextSegmentStart(i)
                /\ accumulatedDuration' = ResetAccumulator(newDuration)
                /\ accumulatedDistance' = ResetAccumulator(newDistance)
           ELSE /\ accumulatedDuration' = newDuration
                /\ accumulatedDistance' = newDistance
                /\ UNCHANGED <<segments, currentSegmentStart>>
    /\ i' = i + 1
    /\ UNCHANGED <<sr_directionsData, sr_targetHours, sr_pc, sr_result>>

segmentRouteReturn ==
    /\ sr_pc = "loop"
    /\ i >= Len(sr_directionsData.coordinates)
    /\ sr_result' = segments
    /\ sr_pc' = "done"
    /\ UNCHANGED <<sr_directionsData, sr_targetHours, i, currentSegmentStart,
                   accumulatedDuration, accumulatedDistance, segments>>

SegInit ==
    /\ PageInit
    /\ TripIdle
    /\ DetectIdle
    /\ FdIdle
    /\ GdIdle
    /\ CdIdle
    /\ MkIdle
    /\ AcIdle
    /\ CfIdle
    /\ FsIdle
    /\ sr_directionsData \in Routes
    /\ sr_targetHours \in TargetHours
    /\ sr_pc = "call"
    /\ i = 0
    /\ currentSegmentStart = 0
    /\ accumulatedDuration = 0
    /\ accumulatedDistance = 0
    /\ segments = << >>
    /\ sr_result = << >>

SegNext ==
    \/ segmentRouteInvalid /\ UNCHANGED notSegVars
    \/ segmentRouteWhole /\ UNCHANGED notSegVars
    \/ segmentRouteBegin /\ UNCHANGED notSegVars
    \/ segmentRouteLoop /\ UNCHANGED notSegVars
    \/ segmentRouteReturn /\ UNCHANGED notSegVars

SegSpec == SegInit /\ [][SegNext]_vars

\* ------------------------------------------------------------------------
\* Inputs of the planning page
\* ------------------------------------------------------------------------
MaxPlaces == 3

MaxRankedPlaces == 25

MaxNow == 1

Locations ==
    {[place_name |-> "San Francisco", center |-> <<-122, 38>>],
     [place_name |-> "Denver", center |-> <<-105, 40>>]}

\* what a recommended place may carry as its coordinate: nothing, the
\* sentinel, pairs with one zero component, a proper pair, arrays of the
\* wrong length
PlaceCoordinates ==
    {Undefined, <<0, 0>>, <<0, 40>>, <<-100, 0>>, <<-100, 40>>, <<-100>>,
     <<-100, 40, 7>>}

RecommendedPlace(name, coordinate) == [name |-> name, coordinate |-> coordinate]

\* short answers over every kind of coordinate
ShortPlaceLists ==
    UNION {[1..n -> {RecommendedPlace("place", c) : c \in PlaceCoordinates}] :
             n \in 0..MaxPlaces}

\* long ranked answers of distinct usable places
RankedPlaceLists ==
    {[k \in 1..n |-> RecommendedPlace("ranked", <<-121 + k, 40>>)] :
       n \in (MaxRankedPlaces - 3)..MaxRankedPlaces}

\* answers that mix different usable places with one that has no coordinate
MixedPlaceLists ==
    {<<RecommendedPlace("lake", <<-118, 39>>), RecommendedPlace("nowhere", Undefined),
       RecommendedPlace("canyon", <<-110, 37>>)>>,
     <<RecommendedPlace("canyon", <<-110, 37>>), RecommendedPlace("lake", <<-118, 39>>),
       RecommendedPlace("nowhere", <<0, 0>>)>>}

\* the recommender's answers: an object with or without recommendedPlaces
PlacesRecommendations ==
    {[hasPlaces |-> FALSE, recommendedPlaces |-> << >>]}
      \cup {[hasPlaces |-> TRUE, recommendedPlaces |-> ps] :
              ps \in ShortPlaceLists \cup RankedPlaceLists \cup MixedPlaceLists}

\* a route of the routing engine's answer
ResponseRoute(t) ==
    DirectionsResult("ok", <<<<-122, 38>>, <<-112, 34>>, <<-105, 40>>>>, 1000000, t)

\* what fetch and response.json() can do: fetch rejects, the body does not
\* parse, the body has no routes field, or it has a list of routes
DirectionsResponses ==
    {[fetch |-> "rejected", json |-> "none", hasRoutes |-> FALSE, routes |-> << >>],
     [fetch |-> "resolved", json |-> "rejected", hasRoutes |-> FALSE, routes |-> << >>],
     [fetch |-> "resolved", json |-> "parsed", hasRoutes |-> FALSE, routes |-> << >>],
     [fetch |-> "resolved", json |-> "parsed", hasRoutes |-> TRUE, routes |-> << >>],
     [fetch |-> "resolved", json |-> "parsed", hasRoutes |-> TRUE,
      routes |-> <<ResponseRoute(2400)>>],
     [fetch |-> "resolved", json |-> "parsed", hasRoutes |-> TRUE,
      routes |-> <<ResponseRoute(18060)>>],
     [fetch |-> "resolved", json |-> "parsed", hasRoutes |-> TRUE,
      routes |-> <<ResponseRoute(18060), ResponseRoute(2400)>>]}

\* a recommendation of the POI recommender, with or without a coordinate
GeminiPOIRecommendation(name, coordinate) == [name |-> name, coordinate |-> coordinate]

GeminiPOILists ==
    {<< >>,
     <<GeminiPOIRecommendation("museum", Undefined)>>,
     <<GeminiPOIRecommendation("park", <<-104, 39>>)>>,
     <<GeminiPOIRecommendation("park", <<-104, 39>>),
       GeminiPOIRecommendation("museum", Undefined)>>}

\* the POI recommender's environment: its configuration, and what fetch,
\* the response and the parser do
GeminiPOIReply(configured, fetch, ok, candidates, parsable, recommendations) ==
    [configured |-> configured, fetch |-> fetch, ok |-> ok, candidates |-> candidates,
     parsable |-> parsable, recommendations |-> recommendations]

GeminiPOIReplies ==
    {GeminiPOIReply(FALSE, "none", FALSE, FALSE, FALSE, << >>),
     GeminiPOIReply(TRUE, "rejected", FALSE, FALSE, FALSE, << >>),
     GeminiPOIReply(TRUE, "resolved", FALSE, FALSE, FALSE, << >>),
     GeminiPOIReply(TRUE, "resolved", TRUE, FALSE, FALSE, << >>),
     GeminiPOIReply(TRUE, "resolved", TRUE, TRUE, FALSE, << >>)}
      \cup {GeminiPOIReply(TRUE, "resolved", TRUE, TRUE, TRUE, recs) :
              recs \in GeminiPOILists}

\* ------------------------------------------------------------------------
\* Map<number, PlaceOfInterest[]>
\* ------------------------------------------------------------------------
MapSet(m, key, value) ==
    [x \in (DOMAIN m) \cup {key} |-> IF x = key THEN value ELSE m[x]]

\* ------------------------------------------------------------------------
\* getDirections: the request it builds
\* ------------------------------------------------------------------------
MaxWaypoints == 23

\* waypoints.slice(0, 23)
limitedWaypointsAll(waypoints) == waypoints

limitedWaypoints(waypoints) == Slice(waypoints, 0, MaxWaypoints)

\* the coordinates written into coordinatesString, in order
coordinatesStringDestinationFirst(origin, destination, waypoints) ==
    <<<<origin[1], origin[2]>>>>
      \o <<<<destination[1], destination[2]>>>>
      \o (IF waypoints # Undefined /\ Len(waypoints) > 0
          THEN [k \in 1..Len(limitedWaypoints(waypoints)) |->
                  <<limitedWaypoints(waypoints)[k][1], limitedWaypoints(waypoints)[k][2]>>]
          ELSE << >>)

coordinatesString(origin, destination, waypoints) ==
    <<<<origin[1], origin[2]>>>>
      \o (IF waypoints # Undefined /\ Len(waypoints) > 0
          THEN [k \in 1..Len(limitedWaypoints(waypoints)) |->
                  <<limitedWaypoints(waypoints)[k][1], limitedWaypoints(waypoints)[k][2]>>]
          ELSE << >>)
      \o <<<<destination[1], destination[2]>>>>

\* how a call ends: it throws, or it returns value
Threw == [threw |-> TRUE, value |-> Undefined]

Returns(value) == [threw |-> FALSE, value |-> value]

\* the try block of getDirections
getDirectionsTry(response) ==
    IF response.fetch = "rejected" \/ response.json = "rejected"
    THEN Threw
    ELSE IF response.hasRoutes /\ Len(response.routes) > 0
         THEN Returns(DirectionsResult("ok", response.routes[1].coordinates,
                                       response.routes[1].distance,
                                       response.routes[1].duration))
         ELSE Returns(NullRoute)

\* the catch block of getDirections
getDirectionsRethrow(outcome) == outcome

getDirectionsCatch(outcome) == IF outcome.threw THEN Returns(NullRoute) ELSE outcome

getDirectionsOutcome(response) == getDirectionsCatch(getDirectionsTry(response))

\* what getDirections returns for a response: the first route, or null
getDirectionsResult(response) == getDirectionsOutcome(response).value

\* ------------------------------------------------------------------------
\* getGeminiPOIRecommendations and findDestinationPOIs
\* ------------------------------------------------------------------------
geminiPOI(rec, index, coordinates, time) ==
    [id         |-> <<"gemini", "poi", index, time>>,
     name       |-> rec.name,
     coordinate |-> IF rec.coordinate = Undefined THEN coordinates ELSE rec.coordinate,
     distance   |-> 0,
     importance |-> IF index = 0 THEN 3 ELSE 2]

getGeminiPOIRecommendations(placeName, coordinates, reply, time) ==
    IF ~reply.configured THEN Threw
    ELSE IF reply.fetch = "rejected" THEN Threw
    ELSE IF ~reply.ok THEN Threw
    ELSE IF ~reply.candidates THEN Threw
    ELSE IF ~reply.parsable THEN Threw
    ELSE Returns([k \in 1..Len(reply.recommendations) |->
                    geminiPOI(reply.recommendations[k], k - 1, coordinates, time)])

fallbackPOI(coordinate, time) ==
    [id         |-> <<"fallback", "poi", 1, time>>,
     name       |-> "Points of Interest",
     coordinate |-> <<coordinate[1], coordinate[2]>>,
     distance   |-> 0,
     importance |-> 1]

\* the catch block of findDestinationPOIs
findDestinationPOIsRethrow(outcome, coordinate, time) == outcome

findDestinationPOIsCatch(outcome, coordinate, time) ==
    IF outcome.threw THEN Returns(<<fallbackPOI(coordinate, time)>>) ELSE outcome

findDestinationPOIs(coordinate, placeName, reply, time) ==
    findDestinationPOIsCatch(
        getGeminiPOIRecommendations(placeName, coordinate, reply, time),
        coordinate, time)

\* ------------------------------------------------------------------------
\* findDestinationPOIs on its own
\* ------------------------------------------------------------------------
\* destinations: the centers of the locations, and further coordinates
FdCoordinates ==
    {location.center : location \in Locations}
      \cup {<<-112, 34>>, <<-74, 41>>, <<0, 0>>, <<-100, 0>>}

FdPlaceNames == {location.place_name : location \in Locations}

FdInit ==
    /\ PageInit
    /\ TripIdle
    /\ SegIdle
    /\ DetectIdle
    /\ GdIdle
    /\ CdIdle
    /\ MkIdle
    /\ AcIdle
    /\ CfIdle
    /\ FsIdle
    /\ fd_coordinate \in FdCoordinates
    /\ fd_placeName \in FdPlaceNames
    /\ fd_pc = "call"
    /\ fd_reply = Undefined
    /\ fd_outcome = Undefined

\* up to the await of getGeminiPOIRecommendations
findDestinationPOIsCall ==
    /\ fd_pc = "call"
    /\ fd_pc' = "await"
    /\ UNCHANGED <<fd_coordinate, fd_placeName, fd_reply, fd_outcome, now>>

\* the recommender's call ends: return, or catch and fall back
findDestinationPOIsEnd ==
    /\ fd_pc = "await"
    /\ \E reply \in GeminiPOIReplies :
          /\ fd_reply' = reply
          /\ fd_outcome' = findDestinationPOIs(fd_coordinate, fd_placeName, reply, now)
    /\ fd_pc' = "done"
    /\ UNCHANGED <<fd_coordinate, fd_placeName, now>>

\* time passes
FdTick ==
    /\ now < MaxNow
    /\ now' = now + 1
    /\ UNCHANGED fdVars

\* the page's state but for the clock
pageVarsButNow ==
    <<originLocation, destinationLocation, directionsData, loading, error, distance,
      duration, routeSegments, segmentPOIs, loadingPOIs, routeId, hs_pc,
      placesRecommendation, routePOIs, directionsRequest, poiRequest, latest,
      directionsCalls, directionsResult>>

FdNext ==
    \/ findDestinationPOIsCall /\ UNCHANGED <<pageVarsButNow, notFdVars>>
    \/ findDestinationPOIsEnd /\ UNCHANGED <<pageVarsButNow, notFdVars>>
    \/ FdTick /\ UNCHANGED <<pageVarsButNow, notFdVars>>

FdSpec == FdInit /\ [][FdNext]_vars

\* ------------------------------------------------------------------------
\* handleSubmit
\* ------------------------------------------------------------------------
\* a recommended place as a PlaceOfInterest
toRoutePOI(place, index, time) ==
    [id         |-> <<"route-place", index, time>>,
     name       |-> place.name,
     coordinate |-> IF place.coordinate = Undefined THEN <<0, 0>> ELSE place.coordinate,
     distance   |-> 0,
     importance |-> 3]

\* the filter on the converted places
hasValidCoordinate(poi) ==
    /\ Len(poi.coordinate) = 2
    /\ poi.coordinate[1] # 0
    /\ poi.coordinate[2] # 0

\* routePOIs after conversion and filtering
convertPlaces(recommendation, time) ==
    IF recommendation.hasPlaces
    THEN SelectSeq([k \in 1..Len(recommendation.recommendedPlaces) |->
                      toRoutePOI(recommendation.recommendedPlaces[k], k - 1, time)],
                   hasValidCoordinate)
    ELSE << >>

\* routePOIs.length > 0 ? routePOIs.map((poi) => poi.coordinate) : undefined
waypointsOf(pois) ==
    IF Len(pois) > 0 THEN [k \in 1..Len(pois) |-> pois[k].coordinate] ELSE Undefined

\* (directions.distance / 1609.34).toFixed(1), in tenths of a mile
milesTenths(metres) ==
    ((metres \div 160934) * 1000) + ((((metres % 160934) * 1000) + 80467) \div 160934)

formatDistance(metres) == <<milesTenths(metres), "miles">>

formatDuration(seconds) ==
    LET hours   == seconds \div SecondsPerHour
        minutes == (seconds % SecondsPerHour) \div 60
    IN  IF hours > 0
        THEN <<hours, IF hours = 1 THEN "hour" ELSE "hours",
               minutes, IF minutes = 1 THEN "minute" ELSE "minutes">>
        ELSE <<minutes, IF minutes = 1 THEN "minute" ELSE "minutes">>

\* the submit button: disabled={loading}
SubmitEnabledAlways == TRUE

SubmitEnabled == ~loading

\* the invocation of handleSubmit that a submission starts
IdleSlots == {k \in Slots : hs_pc[k] = "idle"}

NewSlot == CHOOSE k \in IdleSlots : \A j \in IdleSlots : k <= j

handleOriginSelect ==
    /\ \E location \in Locations : originLocation' = location
    /\ UNCHANGED <<destinationLocation, directionsData, loading, error, distance,
                   duration, routeSegments, segmentPOIs, loadingPOIs, routeId, hs_pc,
                   placesRecommendation, routePOIs, directionsRequest, poiRequest,
                   latest, directionsCalls, directionsResult, now>>

handleDestinationSelect ==
    /\ \E location \in Locations : destinationLocation' = location
    /\ UNCHANGED <<originLocation, directionsData, loading, error, distance,
                   duration, routeSegments, segmentPOIs, loadingPOIs, routeId, hs_pc,
                   placesRecommendation, routePOIs, directionsRequest, poiRequest,
                   latest, directionsCalls, directionsResult, now>>

\* the form is submitted while a location is missing
handleSubmitMissingStartsLoading ==
    /\ SubmitEnabled
    /\ originLocation = NoLocation \/ destinationLocation = NoLocation
    /\ error' = "Please select both origin and destination locations"
    /\ loading' = TRUE
    /\ segmentPOIs' = EmptyMap
    /\ UNCHANGED <<originLocation, destinationLocation, directionsData, distance,
                   duration, routeSegments, loadingPOIs, routeId, hs_pc,
                   placesRecommendation, routePOIs, directionsRequest, poiRequest,
                   latest, directionsCalls, directionsResult, now>>

handleSubmitMissing ==
    /\ SubmitEnabled
    /\ originLocation = NoLocation \/ destinationLocation = NoLocation
    /\ error' = "Please select both origin and destination locations"
    /\ UNCHANGED <<originLocation, destinationLocation, directionsData, loading,
                   distance, duration, routeSegments, segmentPOIs, loadingPOIs, routeId,
                   hs_pc, placesRecommendation, routePOIs, directionsRequest,
                   poiRequest, latest, directionsCalls, directionsResult, now>>

\* the form is submitted: up to the call of the recommender
handleSubmitStart ==
    /\ SubmitEnabled
    /\ IdleSlots # {}
    /\ originLocation # NoLocation /\ destinationLocation # NoLocation
    /\ error' = NoError
    /\ loading' = TRUE
    /\ segmentPOIs' = EmptyMap
    /\ loadingPOIs' = TRUE
    /\ routePOIs' = [routePOIs EXCEPT ![NewSlot] = << >>]
    /\ placesRecommendation' = [placesRecommendation EXCEPT ![NewSlot] = Undefined]
    /\ hs_pc' = [hs_pc EXCEPT ![NewSlot] = "recommender"]
    /\ latest' = NewSlot
    /\ directionsCalls' = [directionsCalls EXCEPT ![NewSlot] = 0]
    /\ directionsResult' = [directionsResult EXCEPT ![NewSlot] = Undefined]
    /\ UNCHANGED <<originLocation, destinationLocation, directionsData, distance,
                   duration, routeSegments, routeId, directionsRequest, poiRequest,
                   now>>

\* from the recommender's outcome to the request getDirections sends
requestDirectionsEarly(k, pois) ==
    /\ directionsRequest' =
          [directionsRequest EXCEPT ![k] = coordinatesString(originLocation.center,
                                                             destinationLocation.center,
                                                             waypointsOf(routePOIs[k]))]
    /\ directionsCalls' = [directionsCalls EXCEPT ![k] = @ + 1]
    /\ hs_pc' = [hs_pc EXCEPT ![k] = "directions"]
    /\ UNCHANGED directionsResult

requestDirections(k, pois) ==
    /\ directionsRequest' =
          [directionsRequest EXCEPT ![k] = coordinatesString(originLocation.center,
                                                             destinationLocation.center,
                                                             waypointsOf(pois))]
    /\ directionsCalls' = [directionsCalls EXCEPT ![k] = @ + 1]
    /\ hs_pc' = [hs_pc EXCEPT ![k] = "directions"]
    /\ UNCHANGED directionsResult

\* the locals of an invocation that has returned
Returned(k) ==
    /\ hs_pc' = [hs_pc EXCEPT ![k] = "idle"]
    /\ placesRecommendation' = [placesRecommendation EXCEPT ![k] = Undefined]
    /\ routePOIs' = [routePOIs EXCEPT ![k] = << >>]
    /\ directionsRequest' = [directionsRequest EXCEPT ![k] = << >>]
    /\ poiRequest' = [poiRequest EXCEPT ![k] = Undefined]

recommenderReturns(k) ==
    /\ hs_pc[k] = "recommender"
    /\ \E recommendation \in PlacesRecommendations :
          /\ placesRecommendation' = [placesRecommendation EXCEPT ![k] = recommendation]
          /\ routePOIs' = [routePOIs EXCEPT ![k] = convertPlaces(recommendation, now)]
          /\ requestDirections(k, convertPlaces(recommendation, now))
    /\ UNCHANGED <<originLocation, destinationLocation, directionsData, loading, error,
                   distance, duration, routeSegments, segmentPOIs, loadingPOIs, routeId,
                   poiRequest, latest, now>>

\* the recommender throws: the inner catch logs, and the flow goes on
recommenderThrowsEscalates(k) ==
    /\ hs_pc[k] = "recommender"
    /\ error' = "An error occurred while fetching directions"
    /\ loadingPOIs' = FALSE
    /\ loading' = FALSE
    /\ Returned(k)
    /\ UNCHANGED <<originLocation, destinationLocation, directionsData, distance,
                   duration, routeSegments, segmentPOIs, routeId, latest,
                   directionsCalls, directionsResult, now>>

recommenderThrows(k) ==
    /\ hs_pc[k] = "recommender"
    /\ requestDirections(k, routePOIs[k])
    /\ UNCHANGED <<originLocation, destinationLocation, directionsData, loading, error,
                   distance, duration, routeSegments, segmentPOIs, loadingPOIs, routeId,
                   placesRecommendation, routePOIs, poiRequest, latest, now>>

\* getDirections resolves to null: the message, and no second request
directionsNotFoundRetry(k) ==
    /\ hs_pc[k] = "directions"
    /\ \E response \in DirectionsResponses :
          getDirectionsResult(response) = NullRoute
    /\ error' = "Could not find directions between these locations"
    /\ directionsResult' = [directionsResult EXCEPT ![k] = NullRoute]
    /\ directionsCalls' = [directionsCalls EXCEPT ![k] = @ + 1]
    /\ UNCHANGED <<originLocation, destinationLocation, directionsData, loading,
                   distance, duration, routeSegments, segmentPOIs, loadingPOIs, routeId,
                   hs_pc, placesRecommendation, routePOIs, directionsRequest,
                   poiRequest, latest, now>>

directionsNotFound(k) ==
    /\ hs_pc[k] = "directions"
    /\ \E response \in DirectionsResponses :
          getDirectionsResult(response) = NullRoute
    /\ error' = "Could not find directions between these locations"
    /\ directionsResult' = [directionsResult EXCEPT ![k] = NullRoute]
    /\ loadingPOIs' = FALSE
    /\ loading' = FALSE
    /\ Returned(k)
    /\ UNCHANGED <<originLocation, destinationLocation, directionsData, distance,
                   duration, routeSegments, segmentPOIs, routeId, latest,
                   directionsCalls, now>>

\* getDirections resolves to a route: up to the call of findDestinationPOIs
directionsFound(k) ==
    /\ hs_pc[k] = "directions"
    /\ \E response \in DirectionsResponses :
          LET directions == getDirectionsResult(response)
          IN  /\ directions # NullRoute
              /\ directionsData' = directions
              /\ directionsResult' = [directionsResult EXCEPT ![k] = directions]
              /\ distance' = formatDistance(directions.distance)
              /\ duration' = formatDuration(directions.duration)
    /\ routeId' = <<"route", now>>
    /\ error' = NoError
    /\ routeSegments' = << >>
    /\ segmentPOIs' = IF Len(routePOIs[k]) > 0
                      THEN MapSet(segmentPOIs, -2, routePOIs[k])
                      ELSE segmentPOIs
    /\ loadingPOIs' = TRUE
    /\ directionsRequest' = [directionsRequest EXCEPT ![k] = << >>]
    /\ poiRequest' = [poiRequest EXCEPT ![k] =
                         [coordinate |-> destinationLocation.center,
                          placeName  |-> destinationLocation.place_name]]
    /\ hs_pc' = [hs_pc EXCEPT ![k] = "destinationPOIs"]
    /\ UNCHANGED <<originLocation, destinationLocation, loading, placesRecommendation,
                   routePOIs, latest, directionsCalls, now>>

\* the POI shown when fetchDestinationPOIs catches an error
errorPOI(coordinate, time) ==
    [id         |-> <<"error", "poi", time>>,
     name       |-> "API Configuration Required",
     coordinate |-> coordinate,
     distance   |-> 0,
     importance |-> 1]

\* findDestinationPOIs resolves: the rest of fetchDestinationPOIs and handleSubmit
destinationPOIsReturnStillLoading(k) ==
    /\ hs_pc[k] = "destinationPOIs"
    /\ \E reply \in GeminiPOIReplies :
          LET outcome == findDestinationPOIs(poiRequest[k].coordinate,
                                             poiRequest[k].placeName, reply, now)
          IN  segmentPOIs' =
                  MapSet(segmentPOIs, -1,
                         IF outcome.threw
                         THEN <<errorPOI(destinationLocation.center, now)>>
                         ELSE outcome.value)
    /\ loading' = FALSE
    /\ Returned(k)
    /\ UNCHANGED <<originLocation, destinationLocation, directionsData, error, distance,
                   duration, routeSegments, loadingPOIs, routeId, latest,
                   directionsCalls, directionsResult, now>>

destinationPOIsReturn(k) ==
    /\ hs_pc[k] = "destinationPOIs"
    /\ \E reply \in GeminiPOIReplies :
          LET outcome == findDestinationPOIs(poiRequest[k].coordinate,
                                             poiRequest[k].placeName, reply, now)
          IN  segmentPOIs' =
                  MapSet(segmentPOIs, -1,
                         IF outcome.threw
                         THEN <<errorPOI(destinationLocation.center, now)>>
                         ELSE outcome.value)
    /\ loadingPOIs' = FALSE
    /\ loading' = FALSE
    /\ Returned(k)
    /\ UNCHANGED <<originLocation, destinationLocation, directionsData, error, distance,
                   duration, routeSegments, routeId, latest, directionsCalls,
                   directionsResult, now>>

\* time passes
Tick ==
    /\ now < MaxNow
    /\ now' = now + 1
    /\ UNCHANGED <<originLocation, destinationLocation, directionsData, loading, error,
                   distance, duration, routeSegments, segmentPOIs, loadingPOIs, routeId,
                   hs_pc, placesRecommendation, routePOIs, directionsRequest,
                   poiRequest, latest, directionsCalls, directionsResult>>

PlanInit ==
    /\ PageInit
    /\ SegIdle
    /\ TripIdle
    /\ DetectIdle
    /\ FdIdle
    /\ GdIdle
    /\ CdIdle
    /\ MkIdle
    /\ AcIdle
    /\ CfIdle
    /\ FsIdle

PlanNext ==
    \/ handleOriginSelect /\ UNCHANGED notPageVars
    \/ handleDestinationSelect /\ UNCHANGED notPageVars
    \/ handleSubmitMissing /\ UNCHANGED notPageVars
    \/ handleSubmitStart /\ UNCHANGED notPageVars
    \/ \E k \in Slots : recommenderReturns(k) /\ UNCHANGED notPageVars
    \/ \E k \in Slots : recommenderThrows(k) /\ UNCHANGED notPageVars
    \/ \E k \in Slots : directionsNotFound(k) /\ UNCHANGED notPageVars
    \/ \E k \in Slots : directionsFound(k) /\ UNCHANGED notPageVars
    \/ \E k \in Slots : destinationPOIsReturn(k) /\ UNCHANGED notPageVars
    \/ Tick /\ UNCHANGED notPageVars

PlanSpec == PlanInit /\ [][PlanNext]_vars

\* every call that handleSubmit awaits settles: the continuation of a settled
\* promise is run by the event loop
awaitsSettle ==
    \E k \in Slots :
        /\ \/ recommenderReturns(k)
           \/ recommenderThrows(k)
           \/ directionsNotFound(k)
           \/ directionsFound(k)
           \/ destinationPOIsReturn(k)
        /\ UNCHANGED notPageVars

PlanLiveSpec == PlanInit /\ [][PlanNext]_vars /\ WF_vars(awaitsSettle)

\* ------------------------------------------------------------------------
\* segmentRoute as the page calls it
\* ------------------------------------------------------------------------
RECURSIVE segmentRouteFrom(_, _, _, _, _, _, _)
\* the for loop of segmentRoute from index idx on
segmentRouteFrom(dd, targetHours, idx, start, accDuration, accDistance, segs) ==
    IF idx >= Len(dd.coordinates)
    THEN segs
    ELSE LET coordinates     == dd.coordinates
             segmentDistance == calculateDistance(At(coordinates, idx - 1),
                                                  At(coordinates, idx))
             newDuration     == accDuration
                                  + estimatedDuration(segmentDistance,
                                                      distanceTimeRatio(dd))
             newDistance     == accDistance + segmentDistance
         IN  IF ShouldClose(newDuration, targetDurationSeconds(targetHours),
                            idx, Len(coordinates))
             THEN segmentRouteFrom(dd, targetHours, idx + 1, NextSegmentStart(idx),
                                   ResetAccumulator(newDuration),
                                   ResetAccumulator(newDistance),
                                   Append(segs, MakeSegment(coordinates, start, idx,
                                                            newDistance, newDuration)))
             ELSE segmentRouteFrom(dd, targetHours, idx + 1, start, newDuration,
                                   newDistance, segs)

segmentRoute(dd, targetHours) ==
    IF IsInvalidRoute(dd) THEN << >>
    ELSE IF FitsOneSegment(dd, targetHours) THEN <<WholeRouteSegment(dd)>>
    ELSE segmentRouteFrom(dd, targetHours, 1, 0, 0, 0, << >>)

\* ------------------------------------------------------------------------
\* The page that splits the route into segments: the reactive block
\* ------------------------------------------------------------------------
\* s.endCoordinate[0] throws a TypeError when a segment has no endCoordinate
endpointsThrow(segs) == \E k \in 1..Len(segs) : segs[k].endCoordinate = Undefined

\* the change detector takes coordinates in units of 1/CoordScale degree
CoordScale == 100000

\* a string is the sequence of its pieces: a character, or a run of digits
\* given by the number they write
Char(c) == <<c, 0>>

Digits(n) == <<"digits", n>>

\* x.toFixed(4): "-" for x < 0, then the digits of the number of
\* ten-thousandths nearest to |x|, the larger one on a tie
toFixed4Truncating(x) ==
    (IF x < 0 THEN <<Char("-")>> ELSE << >>)
      \o <<Digits(Abs(x) \div (CoordScale \div 10000))>>

toFixed4(x) ==
    (IF x < 0 THEN <<Char("-")>> ELSE << >>)
      \o <<Digits(((2 * Abs(x)) + (CoordScale \div 10000))
                    \div (2 * (CoordScale \div 10000)))>>

\* `${s.endCoordinate[0].toFixed(4)},${s.endCoordinate[1].toFixed(4)}`
endpointString(s) ==
    toFixed4(s.endCoordinate[1]) \o <<Char(",")>> \o toFixed4(s.endCoordinate[2])

RECURSIVE join(_, _)
\* strings.join(separator)
join(strings, separator) ==
    IF Len(strings) = 0 THEN << >>
    ELSE IF Len(strings) = 1 THEN strings[1]
    ELSE strings[1] \o <<Char(separator)>> \o join(Tail(strings), separator)

\* segs.map(...).join('|')
endpoints(segs) == join([k \in 1..Len(segs) |-> endpointString(segs[k])], "|")

\* oldEndpoints !== newEndpoints
segmentsChanged(oldSegments, newSegments) ==
    endpoints(oldSegments) # endpoints(newSegments)

\* ------------------------------------------------------------------------
\* The change detector on its own
\* ------------------------------------------------------------------------
MaxSegments == 2

\* end coordinates near zero and near 40 N, in units of 1/CoordScale degree
DetectCoordinates ==
    {<<lon, 4000004>> : lon \in {-1, 1, 4, 6}} \cup {<<1, 4000003>>, <<1, 4000006>>}

DetectSegment(c) == [endCoordinate |-> c]

DetectLists ==
    UNION {[1..n -> {DetectSegment(c) : c \in DetectCoordinates}] : n \in 0..MaxSegments}

DetectInit ==
    /\ PageInit
    /\ TripIdle
    /\ SegIdle
    /\ FdIdle
    /\ GdIdle
    /\ CdIdle
    /\ MkIdle
    /\ AcIdle
    /\ CfIdle
    /\ FsIdle
    /\ sc_oldSegments \in DetectLists
    /\ sc_newSegments \in DetectLists
    /\ sc_pc = "call"
    /\ sc_segmentsChanged = FALSE

detectChange ==
    /\ sc_pc = "call"
    /\ sc_segmentsChanged' = segmentsChanged(sc_oldSegments, sc_newSegments)
    /\ sc_pc' = "done"
    /\ UNCHANGED <<sc_oldSegments, sc_newSegments>>

DetectNext == detectChange /\ UNCHANGED notScVars

DetectSpec == DetectInit /\ [][DetectNext]_vars

\* $: if (directionsData && targetDrivingHoursPerSegment) { ... }
reactiveSegments(dd, targetHours, oldSegments) ==
    IF dd # NullRoute /\ targetHours # 0
    THEN LET newSegments == segmentRoute(dd, targetHours)
         IN  IF endpointsThrow(oldSegments) \/ endpointsThrow(newSegments)
             THEN oldSegments
             ELSE newSegments
    ELSE oldSegments

\* ------------------------------------------------------------------------
\* The page that splits the route into segments: its handlers
\* ------------------------------------------------------------------------
\* the slider: min 2, max 8, step 1
SliderHours == 2..8

\* calls of fetchDestinationPOIs by toggleDestinationPOIs that may be pending
MaxPendingFetches == 1

\* the routing engine's answers, with a route that has no coordinates
TripDirectionsResponses ==
    DirectionsResponses
      \cup {[fetch |-> "resolved", json |-> "parsed", hasRoutes |-> TRUE,
             routes |-> <<DirectionsResult("ok", << >>, 1000000, 18060)>>]}

\* the form is submitted: up to the call of getDirections
tripSubmitStart ==
    /\ SubmitEnabled
    /\ IdleSlots # {}
    /\ originLocation # NoLocation /\ destinationLocation # NoLocation
    /\ error' = NoError
    /\ loading' = TRUE
    /\ segmentPOIs' = EmptyMap
    /\ directionsRequest' =
          [directionsRequest EXCEPT ![NewSlot] =
              coordinatesString(originLocation.center, destinationLocation.center,
                                Undefined)]
    /\ directionsCalls' = [directionsCalls EXCEPT ![NewSlot] = 1]
    /\ directionsResult' = [directionsResult EXCEPT ![NewSlot] = Undefined]
    /\ hs_pc' = [hs_pc EXCEPT ![NewSlot] = "directions"]
    /\ latest' = NewSlot
    /\ UNCHANGED <<originLocation, destinationLocation, directionsData, distance,
                   duration, routeSegments, loadingPOIs, routeId, placesRecommendation,
                   routePOIs, poiRequest, now>>
    /\ UNCHANGED tripVars

\* getDirections resolves to null
tripDirectionsNotFound(k) ==
    /\ hs_pc[k] = "directions"
    /\ \E response \in TripDirectionsResponses :
          getDirectionsResult(response) = NullRoute
    /\ error' = "Could not find directions between these locations"
    /\ directionsResult' = [directionsResult EXCEPT ![k] = NullRoute]
    /\ loading' = FALSE
    /\ Returned(k)
    /\ UNCHANGED <<originLocation, destinationLocation, directionsData, distance,
                   duration, routeSegments, segmentPOIs, loadingPOIs, routeId, latest,
                   directionsCalls, now>>
    /\ UNCHANGED tripVars

\* getDirections resolves to a route: up to the call of findDestinationPOIs,
\* or to the end when destination POIs are hidden
tripDirectionsFound(k) ==
    /\ hs_pc[k] = "directions"
    /\ \E response \in TripDirectionsResponses :
          LET directions == getDirectionsResult(response)
          IN  /\ directions # NullRoute
              /\ directionsData' = directions
              /\ directionsResult' = [directionsResult EXCEPT ![k] = directions]
              /\ distance' = formatDistance(directions.distance)
              /\ duration' = formatDuration(directions.duration)
              /\ routeSegments' =
                    reactiveSegments(directions, targetDrivingHoursPerSegment,
                                     segmentRoute(directions,
                                                  targetDrivingHoursPerSegment))
    /\ directionsRequest' = [directionsRequest EXCEPT ![k] = << >>]
    /\ IF showDestinationPOIs
       THEN /\ loadingPOIs' = TRUE
            /\ poiRequest' = [poiRequest EXCEPT ![k] =
                                 [coordinate |-> destinationLocation.center,
                                  placeName  |-> destinationLocation.place_name]]
            /\ hs_pc' = [hs_pc EXCEPT ![k] = "destinationPOIs"]
            /\ UNCHANGED loading
       ELSE /\ loading' = FALSE
            /\ hs_pc' = [hs_pc EXCEPT ![k] = "idle"]
            /\ UNCHANGED <<loadingPOIs, poiRequest>>
    /\ UNCHANGED <<originLocation, destinationLocation, error, segmentPOIs, routeId,
                   placesRecommendation, routePOIs, latest, directionsCalls, now>>
    /\ UNCHANGED tripVars

\* segmentPOIs after fetchDestinationPOIs got its answer
destinationPOIsMap(request, reply, time) ==
    LET outcome == findDestinationPOIs(request.coordinate, request.placeName, reply,
                                       time)
    IN  MapSet(EmptyMap, -1,
               IF outcome.threw
               THEN <<errorPOI(destinationLocation.center, time)>>
               ELSE outcome.value)

\* findDestinationPOIs resolves: the rest of fetchDestinationPOIs and handleSubmit
tripDestinationPOIsReturn(k) ==
    /\ hs_pc[k] = "destinationPOIs"
    /\ \E reply \in GeminiPOIReplies :
          segmentPOIs' = destinationPOIsMap(poiRequest[k], reply, now)
    /\ loadingPOIs' = FALSE
    /\ loading' = FALSE
    /\ Returned(k)
    /\ UNCHANGED <<originLocation, destinationLocation, directionsData, error, distance,
                   duration, routeSegments, routeId, latest, directionsCalls,
                   directionsResult, now>>
    /\ UNCHANGED tripVars

\* the toggle button, rendered with the route details
toggleDestinationPOIs ==
    /\ distance # "" /\ duration # ""
    /\ showDestinationPOIs' = ~showDestinationPOIs
    /\ IF ~showDestinationPOIs /\ destinationLocation # NoLocation
       THEN /\ Len(pendingPOIFetches) < MaxPendingFetches
            /\ loadingPOIs' = TRUE
            /\ pendingPOIFetches' =
                  Append(pendingPOIFetches,
                         [coordinate |-> destinationLocation.center,
                          placeName  |-> destinationLocation.place_name])
            /\ UNCHANGED segmentPOIs
       ELSE /\ segmentPOIs' = EmptyMap
            /\ UNCHANGED <<loadingPOIs, pendingPOIFetches>>
    /\ UNCHANGED <<originLocation, destinationLocation, directionsData, loading, error,
                   distance, duration, routeSegments, routeId, hs_pc,
                   placesRecommendation, routePOIs, directionsRequest, poiRequest,
                   latest, directionsCalls, directionsResult,
                   now, targetDrivingHoursPerSegment>>

\* findDestinationPOIs resolves for a call made by toggleDestinationPOIs
toggleFetchReturn ==
    /\ \E n \in 1..Len(pendingPOIFetches) : \E reply \in GeminiPOIReplies :
          /\ segmentPOIs' = destinationPOIsMap(pendingPOIFetches[n], reply, now)
          /\ pendingPOIFetches' = SubSeq(pendingPOIFetches, 1, n - 1)
                                    \o SubSeq(pendingPOIFetches, n + 1,
                                              Len(pendingPOIFetches))
    /\ loadingPOIs' = FALSE
    /\ UNCHANGED <<originLocation, destinationLocation, directionsData, loading, error,
                   distance, duration, routeSegments, routeId, hs_pc,
                   placesRecommendation, routePOIs, directionsRequest, poiRequest,
                   latest, directionsCalls, directionsResult,
                   now, targetDrivingHoursPerSegment,
                   showDestinationPOIs>>

\* the slider is moved: bind:value, then the reactive block
setTargetHours ==
    /\ distance # "" /\ duration # ""
    /\ \E hours \in SliderHours :
          /\ hours # targetDrivingHoursPerSegment
          /\ targetDrivingHoursPerSegment' = hours
          /\ routeSegments' = reactiveSegments(directionsData, hours, routeSegments)
    /\ UNCHANGED <<originLocation, destinationLocation, directionsData, loading, error,
                   distance, duration, segmentPOIs, loadingPOIs, routeId, hs_pc,
                   placesRecommendation, routePOIs, directionsRequest, poiRequest,
                   latest, directionsCalls, directionsResult, now, showDestinationPOIs,
                   pendingPOIFetches>>

TripInit ==
    /\ PageInit
    /\ TripIdle
    /\ SegIdle
    /\ DetectIdle
    /\ FdIdle
    /\ GdIdle
    /\ CdIdle
    /\ MkIdle
    /\ AcIdle
    /\ CfIdle
    /\ FsIdle

TripNext ==
    \/ handleOriginSelect /\ UNCHANGED <<tripVars, notTripVars>>
    \/ handleDestinationSelect /\ UNCHANGED <<tripVars, notTripVars>>
    \/ handleSubmitMissing /\ UNCHANGED <<tripVars, notTripVars>>
    \/ tripSubmitStart /\ UNCHANGED notTripVars
    \/ \E k \in Slots : tripDirectionsNotFound(k) /\ UNCHANGED notTripVars
    \/ \E k \in Slots : tripDirectionsFound(k) /\ UNCHANGED notTripVars
    \/ \E k \in Slots : tripDestinationPOIsReturn(k) /\ UNCHANGED notTripVars
    \/ toggleDestinationPOIs /\ UNCHANGED notTripVars
    \/ toggleFetchReturn /\ UNCHANGED notTripVars
    \/ setTargetHours /\ UNCHANGED notTripVars
    \/ Tick /\ UNCHANGED <<tripVars, notTripVars>>

TripSpec == TripInit /\ [][TripNext]_vars

\* ------------------------------------------------------------------------
\* getDirections on its own
\* ------------------------------------------------------------------------
GdCoordinates == {location.center : location \in Locations} \cup {<<-112, 34>>}

\* waypoints?: [number, number][]
GdWaypoints == {Undefined, << >>, <<<<-118, 39>>>>, <<<<-118, 39>>, <<-110, 37>>>>}

GdInit ==
    /\ PageInit
    /\ TripIdle
    /\ SegIdle
    /\ DetectIdle
    /\ FdIdle
    /\ CdIdle
    /\ MkIdle
    /\ AcIdle
    /\ CfIdle
    /\ FsIdle
    /\ gd_origin \in GdCoordinates
    /\ gd_destination \in GdCoordinates
    /\ gd_waypoints \in GdWaypoints
    /\ gd_pc = "call"
    /\ gd_request = << >>
    /\ gd_response = Undefined
    /\ gd_outcome = Undefined

\* up to the await of fetch
getDirectionsFetch ==
    /\ gd_pc = "call"
    /\ gd_request' = coordinatesString(gd_origin, gd_destination, gd_waypoints)
    /\ gd_pc' = "await"
    /\ UNCHANGED <<gd_origin, gd_destination, gd_waypoints, gd_response, gd_outcome>>

\* fetch and response.json() end: return, or catch and return null
getDirectionsEnd ==
    /\ gd_pc = "await"
    /\ \E response \in TripDirectionsResponses :
          /\ gd_response' = response
          /\ gd_outcome' = getDirectionsOutcome(response)
    /\ gd_pc' = "done"
    /\ UNCHANGED <<gd_origin, gd_destination, gd_waypoints, gd_request>>

GdNext ==
    \/ getDirectionsFetch /\ UNCHANGED notGdVars
    \/ getDirectionsEnd /\ UNCHANGED notGdVars

GdSpec == GdInit /\ [][GdNext]_vars

\* ------------------------------------------------------------------------
\* calculateDistance on its own
\* ------------------------------------------------------------------------
\* [longitude, latitude] in whole degrees, on both sides of the equator and
\* of the prime meridian; latitudes are off the equator, where the products
\* of SinPos stay within 32 bits. The last coordinate is so close to
\* <<20, 40>> that the square of the sine of half the difference is below
\* the resolution of number.
CdCoordinates ==
    {<<lon, lat>> : lon \in {-122, -100, -74, 0, 20}, lat \in {-30, 10, 34, 40}}
      \cup {<<20, 41>>}

CdInit ==
    /\ PageInit
    /\ TripIdle
    /\ SegIdle
    /\ DetectIdle
    /\ FdIdle
    /\ GdIdle
    /\ MkIdle
    /\ AcIdle
    /\ CfIdle
    /\ FsIdle
    /\ cd_coord1 \in CdCoordinates
    /\ cd_coord2 \in CdCoordinates
    /\ cd_pc = "call"
    /\ cd_result = 0

calculateDistanceCall ==
    /\ cd_pc = "call"
    /\ cd_result' = calculateDistance(cd_coord1, cd_coord2)
    /\ cd_pc' = "done"
    /\ UNCHANGED <<cd_coord1, cd_coord2>>

CdNext == calculateDistanceCall /\ UNCHANGED notCdVars

CdSpec == CdInit /\ [][CdNext]_vars

\* ------------------------------------------------------------------------
\* MapComponent: the origin and destination markers
\* ------------------------------------------------------------------------
MaxMapEvents == 3

\* what the page passes as origin and destination; a value stands for one
\* array object, so that !== of the code is # here
MapCenters == {location.center : location \in Locations} \cup {Undefined}

\* microtasks: the flush of Svelte's reactive statements, and the
\* continuation of a run of updateMarkers after an await
Flush == <<"flush", 0>>

Resume(k) == <<"resume", k>>

\* new mapboxgl.Marker(el) in createCatMarker
createCatMarker(isOrigin) == [id |-> markersCreated + 1, isOrigin |-> isOrigin]

\* the markers left on the map by clearMarkers
clearMarkers == {marker \in attached : marker # originMarker /\ marker # destinationMarker}

\* updateMarkers from its call to its first await (or to its end); queue is
\* the queue of microtasks at the call
updateMarkers(k, queue) ==
    LET changed == map_origin # previousOrigin \/ map_destination # previousDestination
        suspends == map_origin # Undefined \/ map_destination # Undefined
    IN  /\ attached' = IF changed THEN clearMarkers ELSE attached
        /\ originMarker' = IF changed THEN Undefined ELSE originMarker
        /\ destinationMarker' = IF changed THEN Undefined ELSE destinationMarker
        /\ previousOrigin' = map_origin
        /\ previousDestination' = map_destination
        /\ um_pc' = [um_pc EXCEPT ![k] =
                        IF map_origin # Undefined THEN "origin"
                        ELSE IF map_destination # Undefined THEN "destination"
                        ELSE "idle"]
        /\ um_marker' = [um_marker EXCEPT ![k] =
                            IF suspends THEN createCatMarker(map_origin # Undefined)
                                        ELSE Undefined]
        /\ markersCreated' = IF suspends THEN markersCreated + 1 ELSE markersCreated
        /\ microtasks' = IF suspends THEN Append(queue, Resume(k)) ELSE queue

IdleRuns == {k \in Runs : um_pc[k] = "idle"}

NewRun == CHOOSE k \in IdleRuns : \A j \in IdleRuns : k <= j

\* the page passes another origin
setOrigin ==
    /\ microtasks = << >>
    /\ map_events < MaxMapEvents
    /\ \E center \in MapCenters \ {map_origin} : map_origin' = center
    /\ microtasks' = <<Flush>>
    /\ map_events' = map_events + 1
    /\ UNCHANGED <<map_destination, previousOrigin, previousDestination, originMarker,
                   destinationMarker, attached, mapInitialized, um_pc, um_marker,
                   markersCreated>>

\* the page passes another destination
setDestination ==
    /\ microtasks = << >>
    /\ map_events < MaxMapEvents
    /\ \E center \in MapCenters \ {map_destination} : map_destination' = center
    /\ microtasks' = <<Flush>>
    /\ map_events' = map_events + 1
    /\ UNCHANGED <<map_origin, previousOrigin, previousDestination, originMarker,
                   destinationMarker, attached, mapInitialized, um_pc, um_marker,
                   markersCreated>>

\* map.on('load'): the assignment to mapInitialized schedules the flush,
\* then the handler calls updateMarkers itself
mapLoad ==
    /\ microtasks = << >>
    /\ ~mapInitialized
    /\ mapInitialized' = TRUE
    /\ updateMarkers(NewRun, <<Flush>>)
    /\ UNCHANGED <<map_origin, map_destination, map_events>>

\* $: if (mapInitialized && map) updateMarkers()
reactiveUpdateMarkers ==
    /\ microtasks # << >>
    /\ Head(microtasks) = Flush
    /\ IF mapInitialized
       THEN updateMarkers(NewRun, Tail(microtasks))
       ELSE /\ microtasks' = Tail(microtasks)
            /\ UNCHANGED <<previousOrigin, previousDestination, originMarker,
                           destinationMarker, attached, um_pc, um_marker,
                           markersCreated>>
    /\ UNCHANGED <<map_origin, map_destination, mapInitialized, map_events>>

\* updateMarkers after createCatMarker(origin, ...) has resolved
originMarkerCreated(k) ==
    /\ microtasks # << >>
    /\ Head(microtasks) = Resume(k)
    /\ um_pc[k] = "origin"
    /\ originMarker' = um_marker[k]
    /\ attached' = attached \cup {um_marker[k]}
    /\ IF map_destination # Undefined
       THEN /\ um_pc' = [um_pc EXCEPT ![k] = "destination"]
            /\ um_marker' = [um_marker EXCEPT ![k] = createCatMarker(FALSE)]
            /\ markersCreated' = markersCreated + 1
            /\ microtasks' = Append(Tail(microtasks), Resume(k))
       ELSE /\ um_pc' = [um_pc EXCEPT ![k] = "idle"]
            /\ um_marker' = [um_marker EXCEPT ![k] = Undefined]
            /\ microtasks' = Tail(microtasks)
            /\ UNCHANGED markersCreated
    /\ UNCHANGED <<map_origin, map_destination, previousOrigin, previousDestination,
                   destinationMarker, mapInitialized, map_events>>

\* updateMarkers after createCatMarker(destination, ...) has resolved
destinationMarkerCreated(k) ==
    /\ microtasks # << >>
    /\ Head(microtasks) = Resume(k)
    /\ um_pc[k] = "destination"
    /\ destinationMarker' = um_marker[k]
    /\ attached' = attached \cup {um_marker[k]}
    /\ um_pc' = [um_pc EXCEPT ![k] = "idle"]
    /\ um_marker' = [um_marker EXCEPT ![k] = Undefined]
    /\ microtasks' = Tail(microtasks)
    /\ UNCHANGED <<map_origin, map_destination, previousOrigin, previousDestination,
                   originMarker, mapInitialized, markersCreated, map_events>>

MkInit ==
    /\ PageInit
    /\ SegIdle
    /\ TripIdle
    /\ DetectIdle
    /\ FdIdle
    /\ GdIdle
    /\ CdIdle
    /\ MkIdle
    /\ AcIdle
    /\ CfIdle
    /\ FsIdle

MkNext ==
    \/ setOrigin /\ UNCHANGED notMkVars
    \/ setDestination /\ UNCHANGED notMkVars
    \/ mapLoad /\ UNCHANGED notMkVars
    \/ reactiveUpdateMarkers /\ UNCHANGED notMkVars
    \/ \E k \in Runs : originMarkerCreated(k) /\ UNCHANGED notMkVars
    \/ \E k \in Runs : destinationMarkerCreated(k) /\ UNCHANGED notMkVars

MkSpec == MkInit /\ [][MkNext]_vars

\* ------------------------------------------------------------------------
\* LocationAutocomplete
\* ------------------------------------------------------------------------
\* setTimeout(handleInput, 300)
DebounceMs == 300

\* the step of time
TickMs == 100

MaxTimers == 4

MaxSearches == 2

\* what the user types: strings as sequences of characters
TypedValues == {<< >>, <<" ", "d", " ">>, <<"d", "e">>, <<"d", "e", "n">>}

Suggestion(name, center) == [place_name |-> name, center |-> center]

\* the lists the geocoder answers with
FeatureLists ==
    {<< >>,
     <<Suggestion(<<"d", "e", "n">>, <<-105, 40>>)>>,
     <<Suggestion(<<"d", "e", "n">>, <<-105, 40>>),
       Suggestion(<<"d", "e", "l">>, <<-101, 29>>)>>}

\* String.prototype.trim
RECURSIVE trimStart(_)
trimStart(chars) ==
    IF chars # << >> /\ Head(chars) = " " THEN trimStart(Tail(chars)) ELSE chars

RECURSIVE trimEnd(_)
trimEnd(chars) ==
    IF chars # << >> /\ chars[Len(chars)] = " "
    THEN trimEnd(SubSeq(chars, 1, Len(chars) - 1))
    ELSE chars

trim(chars) == trimEnd(trimStart(chars))

\* searchLocations: the features of the answer, [] when fetch or json() fails
searchLocations(fetched, features) == IF fetched THEN features ELSE << >>

\* clearTimeout(id)
clearTimeoutNever(pending, id) == pending

clearTimeout(pending, id) == {timer \in pending : timer.id # id}

\* the reactive statement on value: debouncedInput
debouncedInput ==
    /\ timers' = clearTimeout(timers, debounceTimer)
                    \cup {[id |-> timersCreated + 1, left |-> DebounceMs]}
    /\ debounceTimer' = timersCreated + 1
    /\ timersCreated' = timersCreated + 1

\* bind:value: the user edits the input
inputValue ==
    /\ timersCreated < MaxTimers
    /\ \E typed \in TypedValues \ {ac_value} : ac_value' = typed
    /\ sinceChange' = 0
    /\ debouncedInput
    /\ UNCHANGED <<suggestions, ac_loading, selectedIndex, searches, searchesIssued,
                   shownSearch>>

\* time passes; a timer may fire later than its delay, never earlier
timePasses ==
    /\ sinceChange < DebounceMs \/ \E timer \in timers : timer.left > 0
    /\ sinceChange' = IF sinceChange + TickMs > DebounceMs THEN DebounceMs
                                                          ELSE sinceChange + TickMs
    /\ timers' = {[id |-> timer.id,
                   left |-> IF timer.left > TickMs THEN timer.left - TickMs ELSE 0] :
                  timer \in timers}
    /\ UNCHANGED <<ac_value, suggestions, ac_loading, selectedIndex, debounceTimer,
                   searches, timersCreated, searchesIssued, shownSearch>>

\* a timer fires: handleInput returns for a short value
handleInputShort ==
    /\ \E timer \in timers : timer.left = 0 /\ timers' = timers \ {timer}
    /\ Len(trim(ac_value)) < 2
    /\ suggestions' = << >>
    /\ UNCHANGED <<ac_value, ac_loading, selectedIndex, debounceTimer, searches,
                   sinceChange, timersCreated, searchesIssued, shownSearch>>

\* a timer fires: handleInput up to the await of searchLocations
handleInputSearch ==
    /\ \E timer \in timers : timer.left = 0 /\ timers' = timers \ {timer}
    /\ Len(trim(ac_value)) >= 2
    /\ Cardinality(searches) < MaxSearches
    /\ ac_loading' = TRUE
    /\ searches' = searches \cup {[id |-> searchesIssued + 1, query |-> ac_value]}
    /\ searchesIssued' = searchesIssued + 1
    /\ UNCHANGED <<ac_value, suggestions, selectedIndex, debounceTimer, sinceChange,
                   timersCreated, shownSearch>>

\* searchLocations resolves: the rest of handleInput
handleInputReturn ==
    /\ \E search \in searches :
          /\ searches' = searches \ {search}
          /\ shownSearch' = search.id
          /\ \E fetched \in BOOLEAN : \E features \in FeatureLists :
                suggestions' = searchLocations(fetched, features)
    /\ selectedIndex' = -1
    /\ ac_loading' = FALSE
    /\ UNCHANGED <<ac_value, debounceTimer, timers, sinceChange, timersCreated,
                   searchesIssued>>

\* handleSelect; the assignment to value runs debouncedInput when it changes
\* value
handleSelect(suggestion) ==
    /\ ac_value' = suggestion.place_name
    /\ suggestions' = << >>
    /\ IF suggestion.place_name # ac_value
       THEN /\ timersCreated < MaxTimers
            /\ sinceChange' = 0
            /\ debouncedInput
       ELSE UNCHANGED <<sinceChange, timers, debounceTimer, timersCreated>>
    /\ UNCHANGED <<ac_loading, selectedIndex, searches, searchesIssued, shownSearch>>

\* on:mousedown of a suggestion
mousedown ==
    /\ suggestions # << >>
    /\ \E k \in 1..Len(suggestions) : handleSelect(suggestions[k])

\* on:mouseover of suggestion k (counted from 0)
mouseover ==
    /\ suggestions # << >>
    /\ \E k \in 0..(Len(suggestions) - 1) : selectedIndex' = k
    /\ UNCHANGED <<ac_value, suggestions, ac_loading, debounceTimer, timers, searches,
                   sinceChange, timersCreated, searchesIssued, shownSearch>>

\* Math.min(selectedIndex + 1, suggestions.length - 1)
arrowDownUnbounded(index, length) == index + 1

arrowDown(index, length) == IF index + 1 < length - 1 THEN index + 1 ELSE length - 1

\* Math.max(selectedIndex - 1, -1)
arrowUp(index) == IF index - 1 > -1 THEN index - 1 ELSE -1

\* handleKeydown for ArrowDown and ArrowUp
handleKeydownArrow ==
    /\ suggestions # << >>
    /\ \/ selectedIndex' = arrowDown(selectedIndex, Len(suggestions))
       \/ selectedIndex' = arrowUp(selectedIndex)
    /\ UNCHANGED <<ac_value, suggestions, ac_loading, debounceTimer, timers, searches,
                   sinceChange, timersCreated, searchesIssued, shownSearch>>

\* handleKeydown for Enter; handleSelect(undefined) throws before it assigns
handleKeydownEnter ==
    /\ suggestions # << >>
    /\ selectedIndex >= 0
    /\ At(suggestions, selectedIndex) # Undefined
    /\ handleSelect(At(suggestions, selectedIndex))

\* handleKeydown for Escape
handleKeydownEscape ==
    /\ suggestions # << >>
    /\ suggestions' = << >>
    /\ UNCHANGED <<ac_value, ac_loading, selectedIndex, debounceTimer, timers,
                   searches, sinceChange, timersCreated, searchesIssued, shownSearch>>

\* the component after its first run of the reactive statement
AcInit ==
    /\ PageInit
    /\ SegIdle
    /\ TripIdle
    /\ DetectIdle
    /\ FdIdle
    /\ GdIdle
    /\ CdIdle
    /\ MkIdle
    /\ CfIdle
    /\ FsIdle
    /\ ac_value = << >>
    /\ suggestions = << >>
    /\ ac_loading = FALSE
    /\ selectedIndex = -1
    /\ debounceTimer = 1
    /\ timers = {[id |-> 1, left |-> DebounceMs]}
    /\ searches = {}
    /\ sinceChange = 0
    /\ timersCreated = 1
    /\ searchesIssued = 0
    /\ shownSearch = 0

AcNext ==
    \/ inputValue /\ UNCHANGED notAcVars
    \/ timePasses /\ UNCHANGED notAcVars
    \/ handleInputShort /\ UNCHANGED notAcVars
    \/ handleInputSearch /\ UNCHANGED notAcVars
    \/ handleInputReturn /\ UNCHANGED notAcVars
    \/ mousedown /\ UNCHANGED notAcVars
    \/ mouseover /\ UNCHANGED notAcVars
    \/ handleKeydownArrow /\ UNCHANGED notAcVars
    \/ handleKeydownEnter /\ UNCHANGED notAcVars
    \/ handleKeydownEscape /\ UNCHANGED notAcVars

AcSpec == AcInit /\ [][AcNext]_vars

\* ------------------------------------------------------------------------
\* getGeminiRoutePlacesRecommendations: the filter by category preferences
\* ------------------------------------------------------------------------
\* strings are sequences of characters
UpperCase ==
    <<"A", "B", "C", "D", "E", "F", "G", "H", "I", "J", "K", "L", "M", "N", "O", "P",
      "Q", "R", "S", "T", "U", "V", "W", "X", "Y", "Z">>

LowerCase ==
    <<"a", "b", "c", "d", "e", "f", "g", "h", "i", "j", "k", "l", "m", "n", "o", "p",
      "q", "r", "s", "t", "u", "v", "w", "x", "y", "z">>

\* String.prototype.toLowerCase
toLowerCase(chars) ==
    [k \in 1..Len(chars) |->
        IF \E n \in 1..Len(UpperCase) : UpperCase[n] = chars[k]
        THEN LowerCase[CHOOSE n \in 1..Len(UpperCase) : UpperCase[n] = chars[k]]
        ELSE chars[k]]

\* String.prototype.includes
includes(chars, keyword) ==
    \E start \in 1..(Len(chars) - Len(keyword) + 1) :
        SubSeq(chars, start, start + Len(keyword) - 1) = keyword

nationalParksKeywords ==
    <<<<"p", "a", "r", "k">>, <<"p", "r", "e", "s", "e", "r", "v", "e">>,
      <<"f", "o", "r", "e", "s", "t">>, <<"n", "a", "t", "u", "r", "a", "l">>,
      <<"n", "a", "t", "u", "r", "e">>>>

landmarksKeywords ==
    <<<<"l", "a", "n", "d", "m", "a", "r", "k">>,
      <<"m", "o", "n", "u", "m", "e", "n", "t">>,
      <<"h", "i", "s", "t", "o", "r", "i", "c">>,
      <<"h", "e", "r", "i", "t", "a", "g", "e">>>>

scenicViewsKeywords ==
    <<<<"s", "c", "e", "n", "i", "c">>, <<"v", "i", "e", "w">>,
      <<"o", "v", "e", "r", "l", "o", "o", "k">>, <<"v", "i", "s", "t", "a">>,
      <<"m", "o", "u", "n", "t", "a", "i", "n">>, <<"l", "a", "k", "e">>,
      <<"v", "a", "l", "l", "e", "y">>>>

foodKeywords ==
    <<<<"f", "o", "o", "d">>, <<"r", "e", "s", "t", "a", "u", "r", "a", "n", "t">>,
      <<"c", "u", "i", "s", "i", "n", "e">>, <<"d", "i", "n", "e", "r">>,
      <<"c", "a", "f", "e">>, <<"d", "i", "n", "i", "n", "g">>>>

citiesKeywords ==
    <<<<"c", "i", "t", "y">>, <<"t", "o", "w", "n">>,
      <<"v", "i", "l", "l", "a", "g", "e">>, <<"u", "r", "b", "a", "n">>,
      <<"d", "o", "w", "n", "t", "o", "w", "n">>>>

quirkyKeywords ==
    <<<<"q", "u", "i", "r", "k", "y">>, <<"u", "n", "u", "s", "u", "a", "l">>,
      <<"s", "t", "r", "a", "n", "g", "e">>, <<"r", "o", "a", "d", "s", "i", "d", "e">>,
      <<"w", "e", "i", "r", "d">>, <<"u", "n", "i", "q", "u", "e">>>>

\* the keywords of the active categories, in the order they are pushed
categoryKeywords(preferences) ==
    (IF preferences.nationalParks THEN nationalParksKeywords ELSE << >>)
      \o (IF preferences.landmarks THEN landmarksKeywords ELSE << >>)
      \o (IF preferences.scenicViews THEN scenicViewsKeywords ELSE << >>)
      \o (IF preferences.food THEN foodKeywords ELSE << >>)
      \o (IF preferences.cities THEN citiesKeywords ELSE << >>)
      \o (IF preferences.quirky THEN quirkyKeywords ELSE << >>)

\* the callback of recommendedPlaces.filter
placeMatches(place, keywords) ==
    \/ /\ place.category # Undefined
       /\ place.category # << >>
       /\ \E k \in 1..Len(keywords) : includes(toLowerCase(place.category), keywords[k])
    \/ \E k \in 1..Len(keywords) :
          \/ includes(toLowerCase(place.name), keywords[k])
          \/ includes(toLowerCase(place.description), keywords[k])
          \/ includes(toLowerCase(place.reasonToStop), keywords[k])

\* only replace if we have at least one matching place
replaceAlways(filteredPlaces, places) == filteredPlaces

replaceIfAny(filteredPlaces, places) ==
    IF Len(filteredPlaces) > 0 THEN filteredPlaces ELSE places

\* recommendedPlaces after the filter by preferences
filterByPreferences(preferences, places) ==
    IF preferences # Undefined /\ places # Undefined /\ Len(places) > 0
    THEN LET keywords == categoryKeywords(preferences)
             matching(place) == placeMatches(place, keywords)
         IN  IF Len(keywords) > 0
             THEN replaceIfAny(SelectSeq(places, matching), places)
             ELSE places
    ELSE places

MaxFilterPlaces == 3

Preferences(parks, landmarks, views, food, cities, quirky) ==
    [nationalParks |-> parks, landmarks |-> landmarks, scenicViews |-> views,
     food |-> food, cities |-> cities, quirky |-> quirky]

\* no preferences, no active category, one, two and all categories
FilterPreferences ==
    {Undefined,
     Preferences(FALSE, FALSE, FALSE, FALSE, FALSE, FALSE),
     Preferences(TRUE, FALSE, FALSE, FALSE, FALSE, FALSE),
     Preferences(FALSE, FALSE, FALSE, TRUE, FALSE, FALSE),
     Preferences(FALSE, FALSE, TRUE, TRUE, FALSE, FALSE),
     Preferences(TRUE, TRUE, TRUE, TRUE, TRUE, TRUE)}

GeminiRecommendedPlace(name, category, description, reasonToStop) ==
    [name |-> name, category |-> category, description |-> description,
     reasonToStop |-> reasonToStop]

\* places that match by category, by name, by description, by reasonToStop,
\* and one that matches no keyword
FilterPlaces ==
    {GeminiRecommendedPlace(<<"Z", "i", "o", "n">>, <<"P", "a", "r", "k">>,
                            <<"r", "e", "d">>, <<"h", "i", "k", "e">>),
     GeminiRecommendedPlace(<<"C", "a", "f", "e">>, << >>, <<"p", "i", "e">>,
                            <<"r", "e", "s", "t">>),
     GeminiRecommendedPlace(<<"T", "a", "h", "o", "e">>, <<"S", "t", "o", "p">>,
                            <<"a", " ", "l", "a", "k", "e">>, <<"s", "w", "i", "m">>),
     GeminiRecommendedPlace(<<"P", "a", "s", "s">>, Undefined, <<"h", "i", "g", "h">>,
                            <<"V", "i", "e", "w", "s">>),
     GeminiRecommendedPlace(<<"M", "a", "l", "l">>, <<"S", "h", "o", "p">>,
                            <<"b", "i", "g">>, <<"r", "e", "s", "t">>)}

FilterPlaceLists ==
    {Undefined} \cup UNION {[1..n -> FilterPlaces] : n \in 0..MaxFilterPlaces}

CfInit ==
    /\ PageInit
    /\ SegIdle
    /\ TripIdle
    /\ DetectIdle
    /\ FdIdle
    /\ GdIdle
    /\ CdIdle
    /\ MkIdle
    /\ AcIdle
    /\ FsIdle
    /\ cf_preferences \in FilterPreferences
    /\ cf_places \in FilterPlaceLists
    /\ cf_pc = "call"
    /\ cf_result = Undefined

applyFilter ==
    /\ cf_pc = "call"
    /\ cf_result' = filterByPreferences(cf_preferences, cf_places)
    /\ cf_pc' = "done"
    /\ UNCHANGED <<cf_preferences, cf_places>>

CfNext == applyFilter /\ UNCHANGED notCfVars

CfSpec == CfInit /\ [][CfNext]_vars

\* ------------------------------------------------------------------------
\* findSegmentPOIs and findMapboxPOIs
\* ------------------------------------------------------------------------
MaxPOISegments == 3

MapboxPOIFeature(id, center) == [id |-> id, center |-> center]

\* what fetch and response.json() do for findMapboxPOIs
MapboxReply(fetch, ok, json, features) ==
    [fetch |-> fetch, ok |-> ok, json |-> json, features |-> features]

MapboxReplies ==
    {MapboxReply("rejected", FALSE, "rejected", Undefined),
     MapboxReply("resolved", FALSE, "parsed", Undefined),
     MapboxReply("resolved", TRUE, "rejected", Undefined),
     MapboxReply("resolved", TRUE, "parsed", Undefined),
     MapboxReply("resolved", TRUE, "parsed", << >>),
     MapboxReply("resolved", TRUE, "parsed",
                 <<MapboxPOIFeature(<<"poi", 1>>, <<-110, 36>>)>>),
     MapboxReply("resolved", TRUE, "parsed",
                 <<MapboxPOIFeature(<<"poi", 1>>, <<-110, 36>>),
                   MapboxPOIFeature(<<"poi", 2>>, <<-90, 45>>)>>)}

\* the POI findMapboxPOIs makes of a feature; importance in halves
mapboxPOI(feature, index, coordinate) ==
    [id         |-> feature.id,
     coordinate |-> feature.center,
     distance   |-> calculateDistance(coordinate, feature.center),
     importance |-> IF index = 0 THEN 2 ELSE 1]

\* the try block of findMapboxPOIs
findMapboxPOIsTry(coordinate, reply) ==
    IF reply.fetch = "rejected" THEN Threw
    ELSE IF ~reply.ok THEN Threw
    ELSE IF reply.json = "rejected" THEN Threw
    ELSE IF reply.features # Undefined /\ Len(reply.features) > 0
         THEN Returns([k \in 1..Len(reply.features) |->
                          mapboxPOI(reply.features[k], k - 1, coordinate)])
         ELSE Returns(<< >>)

\* the catch block of findMapboxPOIs
findMapboxPOIsCatch(outcome) == IF outcome.threw THEN Returns(<< >>) ELSE outcome

findMapboxPOIs(coordinate, reply) ==
    findMapboxPOIsCatch(findMapboxPOIsTry(coordinate, reply))

\* the POI findSegmentPOIs makes up for segment idx; importance in halves
simulatedPOI(idx, startCoord, endCoord) ==
    [id         |-> <<"segment-poi", idx>>,
     coordinate |-> <<startCoord[1] + Half(endCoord[1] - startCoord[1]),
                      startCoord[2] + Half(endCoord[2] - startCoord[2])>>,
     distance   |-> 0,
     importance |-> 2]

\* the midpoint findSegmentPOIs searches around
midpoint(startCoord, endCoord) ==
    <<Half(startCoord[1] + endCoord[1]), Half(startCoord[2] + endCoord[2])>>

\* pois.slice(0, 1)
allResults(pois) == pois

firstResult(pois) == Slice(pois, 0, 1)

\* the list findSegmentPOIs stores for segment idx
segmentPOIList(outcome, idx, startCoord, endCoord) ==
    IF outcome.threw THEN <<simulatedPOI(idx, startCoord, endCoord)>>
    ELSE IF Len(outcome.value) > 0 THEN firstResult(outcome.value)
    ELSE <<simulatedPOI(idx, startCoord, endCoord)>>

\* the for loop from index idx up to its next await or to the return: the
\* last segment is skipped
forLoop(idx) ==
    IF idx < Len(fs_segments) - 1
    THEN fs_i' = idx /\ fs_pc' = "lookup"
    ELSE fs_i' = Len(fs_segments) /\ fs_pc' = "done"

FsSegment(coordinate) == [startCoordinate |-> coordinate]

FsSegmentLists ==
    UNION {[1..n -> {FsSegment(c) : c \in Coords}] : n \in 0..MaxPOISegments}

FsInit ==
    /\ PageInit
    /\ SegIdle
    /\ TripIdle
    /\ DetectIdle
    /\ FdIdle
    /\ GdIdle
    /\ CdIdle
    /\ MkIdle
    /\ AcIdle
    /\ CfIdle
    /\ fs_segments \in FsSegmentLists
    /\ fs_i = 0
    /\ fs_pc = "call"
    /\ fs_segmentPOIs = EmptyMap

\* from the call to the first await, or to the return
findSegmentPOIsCall ==
    /\ fs_pc = "call"
    /\ forLoop(0)
    /\ UNCHANGED <<fs_segments, fs_segmentPOIs>>

\* findMapboxPOIs resolves: the list for segment i is stored
findMapboxPOIsReturn ==
    /\ fs_pc = "lookup"
    /\ \E reply \in MapboxReplies :
          LET startCoord == At(fs_segments, fs_i).startCoordinate
              endCoord   == At(fs_segments, fs_i + 1).startCoordinate
              outcome    == findMapboxPOIs(midpoint(startCoord, endCoord), reply)
          IN  fs_segmentPOIs' =
                  MapSet(fs_segmentPOIs, fs_i,
                         segmentPOIList(outcome, fs_i, startCoord, endCoord))
    /\ fs_pc' = "pause"
    /\ UNCHANGED <<fs_segments, fs_i>>

\* the pause of 500 ms ends: the next iteration
pauseEnds ==
    /\ fs_pc = "pause"
    /\ forLoop(fs_i + 1)
    /\ UNCHANGED <<fs_segments, fs_segmentPOIs>>

FsNext ==
    \/ findSegmentPOIsCall /\ UNCHANGED notFsVars
    \/ findMapboxPOIsReturn /\ UNCHANGED notFsVars
    \/ pauseEnds /\ UNCHANGED notFsVars

\* the request of findMapboxPOIs settles and the timer of the pause fires
FsLiveSpec == FsInit /\ [][FsNext]_vars /\ WF_vars(FsNext)

\* ------------------------------------------------------------------------
\* Properties of segmentRoute
\* ------------------------------------------------------------------------
srDone == sr_pc = "done"

srCoordinates == sr_directionsData.coordinates

srWellFormed == sr_directionsData.shape = "ok"

srPartitioned ==
    srWellFormed /\ sr_directionsData.duration > sr_targetHours * SecondsPerHour

RECURSIVE SumDistance(_)
SumDistance(segs) ==
    IF segs = << >> THEN 0 ELSE segs[1].distance + SumDistance(Tail(segs))

\* sum of the haversine distances of the edges from index a to index b
RECURSIVE PolylineLength(_, _, _)
PolylineLength(coordinates, a, b) ==
    IF b <= a THEN 0
    ELSE PolylineLength(coordinates, a, b - 1)
           + calculateDistance(At(coordinates, b - 1), At(coordinates, b))

\* sum of the estimated durations of the edges from index a to index b
RECURSIVE EstimatedBetween(_, _, _)
EstimatedBetween(dd, a, b) ==
    IF b <= a THEN 0
    ELSE EstimatedBetween(dd, a, b - 1)
           + (calculateDistance(At(dd.coordinates, b - 1), At(dd.coordinates, b))
                * RatioScale) \div ((dd.distance * RatioScale) \div dd.duration)

\* C1: for a route with at least 2 coordinates and a positive targetHours the
\* returned segments are contiguous and index-exhaustive: the first starts at
\* index 0, the last ends at len(coordinates)-1, and each segment starts at the
\* index where the previous one ended.
C1_Contiguous ==
    (srDone /\ srWellFormed /\ Len(srCoordinates) >= 2 /\ sr_targetHours > 0) =>
        /\ Len(sr_result) >= 1
        /\ sr_result[1].startIndex = 0
        /\ sr_result[Len(sr_result)].endIndex = Len(srCoordinates) - 1
        /\ \A k \in 1..(Len(sr_result) - 1) :
              sr_result[k].endIndex = sr_result[k + 1].startIndex

C1_Witness ==
    /\ srDone /\ srPartitioned
    /\ Len(srCoordinates) >= 4
    /\ Len(sr_result) >= 2
    /\ \E k \in 1..Len(sr_result) : sr_result[k].endIndex - sr_result[k].startIndex >= 2

\* C2: when route.duration / 3600 <= targetHours, segmentRoute returns exactly
\* one segment, from index 0 to len(coordinates)-1, whose distance and duration
\* are the route's own totals.
C2_WholeRoute ==
    (srDone /\ srWellFormed
       /\ sr_directionsData.duration <= sr_targetHours * SecondsPerHour) =>
        /\ Len(sr_result) = 1
        /\ sr_result[1].startIndex = 0
        /\ sr_result[1].endIndex = Len(srCoordinates) - 1
        /\ sr_result[1].distance = sr_directionsData.distance
        /\ sr_result[1].duration = sr_directionsData.duration

C2_Witness ==
    /\ srDone /\ srWellFormed
    /\ sr_directionsData.duration = sr_targetHours * SecondsPerHour
    /\ Len(srCoordinates) >= 3
    /\ Len(sr_result) = 1
    /\ PolylineLength(srCoordinates, 0, Len(srCoordinates) - 1)
         # sr_directionsData.distance

\* C3 as stated: the distances of the returned segments add up to the route's
\* distance field, to within rounding (one percent of the route's distance
\* covers the resolution of the fixed-point arithmetic), also when the route
\* is partitioned.  Stated for routes of at least two coordinates of which no
\* two consecutive ones are equal.
C3_Original ==
    (srDone /\ srWellFormed /\ Len(srCoordinates) >= 2
       /\ \A k \in 1..(Len(srCoordinates) - 1) : srCoordinates[k] # srCoordinates[k + 1]) =>
        Abs(SumDistance(sr_result) - sr_directionsData.distance) * 100
            <= sr_directionsData.distance

\* C3 as amended: a single whole-route segment carries the route's distance
\* field; in the partitioned case the distances of the segments add up to the
\* sum of calculateDistance over the consecutive coordinate pairs.
C3_SumOfDistances ==
    (srDone /\ srWellFormed) =>
        IF srPartitioned
        THEN SumDistance(sr_result)
               = PolylineLength(srCoordinates, 0, Len(srCoordinates) - 1)
        ELSE SumDistance(sr_result) = sr_directionsData.distance

C3_Witness ==
    /\ srDone /\ srPartitioned
    /\ Len(sr_result) >= 2
    /\ SumDistance(sr_result) > 0
    /\ Abs(SumDistance(sr_result) - sr_directionsData.distance) * 100
         > sr_directionsData.distance

\* C4: in the partitioned case a segment is closed at index i exactly when the
\* estimated duration accumulated since the previous boundary has reached
\* targetHours*3600 or i is the last index, and the accumulators then restart
\* from 0; so every returned segment but the last lasts at least the target,
\* no segment had reached the target before its final edge, and a segment's
\* duration is the estimate of its own edges only.
C4_ClosedSegments ==
    (srDone /\ srPartitioned) =>
        \A k \in 1..Len(sr_result) :
            LET seg == sr_result[k]
            IN  /\ seg.duration
                     = EstimatedBetween(sr_directionsData, seg.startIndex, seg.endIndex)
                /\ k < Len(sr_result) =>
                     seg.duration >= sr_targetHours * SecondsPerHour
                /\ EstimatedBetween(sr_directionsData, seg.startIndex, seg.endIndex - 1)
                     < sr_targetHours * SecondsPerHour

C4_CloseStep ==
    (sr_pc = "loop" /\ i' = i + 1) =>
        LET closes == \/ EstimatedBetween(sr_directionsData, currentSegmentStart, i)
                           >= sr_targetHours * SecondsPerHour
                      \/ i = Len(srCoordinates) - 1
        IN  /\ closes <=> (Len(segments') = Len(segments) + 1)
            /\ ~closes => segments' = segments
            /\ closes => /\ accumulatedDuration' = 0
                         /\ accumulatedDistance' = 0
                         /\ currentSegmentStart' = i

C4_CloseIff == [](C4_ClosedSegments) /\ [][C4_CloseStep]_vars

C4_Witness ==
    /\ srDone /\ srPartitioned
    /\ Len(sr_result) >= 2
    /\ sr_result[1].endIndex >= 2
    /\ sr_result[Len(sr_result)].duration < sr_targetHours * SecondsPerHour

\* C5: every returned segment has 0 <= startIndex < endIndex <= len(coordinates)-1,
\* whatever the input route and targetHours.
C5_IndexOrder ==
    srDone =>
        \A k \in 1..Len(sr_result) :
            /\ 0 <= sr_result[k].startIndex
            /\ sr_result[k].startIndex < sr_result[k].endIndex
            /\ sr_result[k].endIndex <= Len(srCoordinates) - 1

\* C6: for a missing route object, missing geometry, missing coordinates or a
\* coordinate sequence of length 0 the returned list is empty, whatever the
\* route's duration and targetHours.
C6_EmptyForInvalid ==
    (srDone /\ (~srWellFormed \/ Len(srCoordinates) = 0)) => sr_result = << >>

\* C7: a route of exactly 2 coordinates whose duration exceeds targetHours*3600
\* yields exactly one segment, from index 0 to index 1.
C7_TwoCoordinates ==
    (srDone /\ srPartitioned /\ Len(srCoordinates) = 2) =>
        /\ Len(sr_result) = 1
        /\ sr_result[1].startIndex = 0
        /\ sr_result[1].endIndex = 1

C7_Witness ==
    /\ srDone /\ srPartitioned
    /\ Len(srCoordinates) = 2
    /\ Len(sr_result) = 1
    /\ sr_result[1].duration < sr_targetHours * SecondsPerHour

\* C8: every returned segment has startCoordinate = coordinates[startIndex],
\* endCoordinate = coordinates[endIndex] and carries exactly the coordinates
\* from startIndex to endIndex inclusive; no coordinate outside the input route
\* appears in a segment.
C8_SegmentCoordinates ==
    srDone =>
        \A k \in 1..Len(sr_result) :
            LET seg == sr_result[k]
            IN  /\ seg.startCoordinate = At(srCoordinates, seg.startIndex)
                /\ seg.endCoordinate = At(srCoordinates, seg.endIndex)
                /\ Len(seg.coordinates) = seg.endIndex - seg.startIndex + 1
                /\ \A j \in 1..Len(seg.coordinates) :
                      seg.coordinates[j] = At(srCoordinates, seg.startIndex + j - 1)
                /\ Range(seg.coordinates) \subseteq Range(srCoordinates)

C8_Witness ==
    /\ srDone /\ srPartitioned
    /\ Len(sr_result) >= 2
    /\ \E k \in 2..Len(sr_result) :
          /\ sr_result[k].endIndex - sr_result[k].startIndex >= 2
          /\ sr_result[k].startCoordinate # sr_result[k].endCoordinate

\* ------------------------------------------------------------------------
\* Properties of the waypoints
\* ------------------------------------------------------------------------
\* a coordinate that is present, of length 2 and not the sentinel [0,0]
usableCoordinate(place) ==
    /\ place.coordinate # Undefined
    /\ Len(place.coordinate) = 2
    /\ place.coordinate # <<0, 0>>

recommenderAnswered(k) ==
    hs_pc[k] = "directions" /\ placesRecommendation[k] # Undefined

\* C9: the waypoints built from the recommender's places are exactly the
\* places whose coordinate is present, has length 2 and is not [0,0], in the
\* recommender's order; a place with a single zero component is kept.
C9_WaypointsAreUsablePlaces ==
    \A s \in Slots :
        (recommenderAnswered(s) /\ placesRecommendation[s].hasPlaces) =>
            [k \in 1..Len(routePOIs[s]) |-> routePOIs[s][k].coordinate]
              = LET usable == SelectSeq(placesRecommendation[s].recommendedPlaces,
                                        usableCoordinate)
                IN  [k \in 1..Len(usable) |-> usable[k].coordinate]

\* C10: a request to the routing engine carries at most 23 waypoints between
\* origin and destination, and they are the first 23 (or all, if fewer) of the
\* valid waypoints, in the recommender's order.
C10_AtMost23Waypoints ==
    \A s \in Slots :
        hs_pc[s] = "directions" =>
            LET forwarded == SubSeq(directionsRequest[s], 2, Len(directionsRequest[s]) - 1)
            IN  /\ Len(directionsRequest[s]) >= 2
                /\ Len(forwarded) <= 23
                /\ Len(forwarded) = IF Len(routePOIs[s]) > 23 THEN 23
                                                              ELSE Len(routePOIs[s])
                /\ \A k \in 1..Len(forwarded) : forwarded[k] = routePOIs[s][k].coordinate

C10_Witness ==
    \E s \in Slots :
        /\ hs_pc[s] = "directions"
        /\ Len(routePOIs[s]) = 25
        /\ Len(directionsRequest[s]) = 25
        /\ directionsRequest[s][24] = routePOIs[s][23].coordinate

\* ------------------------------------------------------------------------
\* Properties of the route request
\* ------------------------------------------------------------------------
\* the step of invocation s that sends the route request
requestSent(s) == hs_pc[s] = "recommender" /\ hs_pc'[s] = "directions"

\* a place the page keeps as a waypoint
keptAsWaypoint(place) ==
    /\ place.coordinate # Undefined
    /\ Len(place.coordinate) = 2
    /\ place.coordinate[1] # 0
    /\ place.coordinate[2] # 0

\* the coordinates of the first n elements of places
firstCoordinates(places, n) ==
    [k \in 1..(IF Len(places) < n THEN Len(places) ELSE n) |-> places[k].coordinate]

\* C11: when the recommender has answered with places, the request sent to
\* the routing engine lists the origin first, then the kept waypoints in the
\* order of the recommender's answer, none repeated or moved, then the
\* destination last.
C11_RequestOrder ==
    [][\A s \in Slots :
         (requestSent(s) /\ placesRecommendation'[s] # Undefined
                         /\ placesRecommendation'[s].hasPlaces) =>
             directionsRequest'[s] =
                 <<originLocation.center>>
                   \o firstCoordinates(
                          SelectSeq(placesRecommendation'[s].recommendedPlaces,
                                    keptAsWaypoint), 23)
                   \o <<destinationLocation.center>>]_vars

\* a request with two different waypoints around a place that was dropped
C11_Witness ==
    \E s \in Slots :
        /\ hs_pc[s] = "directions"
        /\ placesRecommendation[s] # Undefined
        /\ placesRecommendation[s].hasPlaces
        /\ Len(placesRecommendation[s].recommendedPlaces) = 3
        /\ placesRecommendation[s].recommendedPlaces[2].coordinate = Undefined
        /\ Len(directionsRequest[s]) = 4
        /\ directionsRequest[s][2] # directionsRequest[s][3]
        /\ directionsRequest[s][1] = originLocation.center
        /\ directionsRequest[s][4] = destinationLocation.center
        /\ originLocation # destinationLocation

\* the recommender threw, or none of its places has a usable coordinate
noUsablePlace(recommendation) ==
    \/ recommendation = Undefined
    \/ ~recommendation.hasPlaces
    \/ SelectSeq(recommendation.recommendedPlaces, usableCoordinate) = << >>

\* the step on which getDirections resolves to a route for invocation s
routeFound(s) ==
    /\ hs_pc[s] = "directions"
    /\ directionsResult'[s] # directionsResult[s]
    /\ directionsResult'[s] # NullRoute

\* the routes the routing engine can return
returnedRoutes ==
    {getDirectionsResult(response) : response \in DirectionsResponses} \ {NullRoute}

\* C12: an invocation leaves the recommender's call only by sending the route
\* request; when the recommender threw or gave no usable place the request is
\* origin, destination alone, and when the routing engine then returns a
\* route, the view shows that route and no error.
C12_RouteWithoutWaypoints ==
    [][\A s \in Slots :
         /\ (hs_pc[s] = "recommender" /\ hs_pc'[s] # "recommender") => requestSent(s)
         /\ (requestSent(s) /\ noUsablePlace(placesRecommendation'[s])) =>
                directionsRequest'[s] =
                    <<originLocation.center, destinationLocation.center>>
         /\ (routeFound(s) /\ noUsablePlace(placesRecommendation[s])) =>
                /\ directionsData' = directionsResult'[s]
                /\ distance' = formatDistance(directionsData'.distance)
                /\ duration' = formatDuration(directionsData'.duration)
                /\ error' = NoError
                /\ loading']_vars

\* the recommender threw and the route is on the page
C12_Witness ==
    \E s \in Slots :
        /\ hs_pc[s] = "destinationPOIs"
        /\ placesRecommendation[s] = Undefined
        /\ directionsData \in returnedRoutes
        /\ error = NoError
        /\ -2 \notin DOMAIN segmentPOIs

\* the step on which getDirections resolves to null for invocation s
noRouteFound(s) ==
    /\ hs_pc[s] = "directions"
    /\ directionsResult'[s] # directionsResult[s]
    /\ directionsResult'[s] = NullRoute

\* C13: an invocation of handleSubmit calls getDirections at most once, and
\* when the call resolves to null it shows the error message and returns
\* without another call.
C13_NoRetry ==
    /\ [](\A s \in Slots : directionsCalls[s] <= 1)
    /\ [][\A s \in Slots :
            noRouteFound(s) =>
                /\ error' = "Could not find directions between these locations"
                /\ directionsCalls'[s] = directionsCalls[s]
                /\ directionsRequest'[s] = << >>
                /\ hs_pc'[s] = "idle"
                /\ ~loading']_vars

\* a submission that ended with the message after its one call
C13_Witness ==
    /\ latest \in Slots
    /\ hs_pc[latest] = "idle"
    /\ directionsCalls[latest] = 1
    /\ directionsResult[latest] = NullRoute
    /\ error = "Could not find directions between these locations"
    /\ ~loading

\* ------------------------------------------------------------------------
\* Properties of overlapping submissions
\* ------------------------------------------------------------------------
\* what a submission's results are written to
viewState == <<directionsData, distance, duration, segmentPOIs>>

\* invocation s takes a step
steps(s) == hs_pc'[s] # hs_pc[s]

\* C14: the view (directionsData, distance, duration, segmentPOIs) is written
\* only by the submission started last; a submission started earlier never
\* writes it once a newer one has started.  While a submission is in flight
\* the submit button is disabled, so no newer one starts.
C14_LastSubmissionWins ==
    /\ [][viewState' # viewState =>
            \E s \in Slots : steps(s) /\ s = latest']_vars
    /\ [](\A s \in Slots : hs_pc[s] # "idle" => (s = latest /\ ~SubmitEnabled))

\* the submission started last has put its route and its places on the page
\* and is still in flight
C14_Witness ==
    /\ latest \in Slots
    /\ hs_pc[latest] = "destinationPOIs"
    /\ directionsData \in returnedRoutes
    /\ -2 \in DOMAIN segmentPOIs
    /\ segmentPOIs[-2] = routePOIs[latest]
    /\ ~SubmitEnabled

\* ------------------------------------------------------------------------
\* Properties of the order of the calls
\* ------------------------------------------------------------------------
\* the waypoints that invocation s derives from the recommender's outcome
ownWaypoints(recommendation) ==
    IF recommendation = Undefined \/ ~recommendation.hasPlaces
    THEN << >>
    ELSE firstCoordinates(SelectSeq(recommendation.recommendedPlaces, keptAsWaypoint),
                          23)

\* C15: an invocation has no route request out while its recommender call is
\* pending; the request is sent on the step that ends that call, and its
\* waypoints are the ones derived from that invocation's own answer.
C15_RequestAfterRecommender ==
    /\ [](\A s \in Slots :
            hs_pc[s] \in {"idle", "recommender"} => directionsRequest[s] = << >>)
    /\ [](\A s \in Slots : hs_pc[s] = "recommender" => directionsCalls[s] = 0)
    /\ [][\A s \in Slots :
            directionsCalls'[s] > directionsCalls[s] =>
                /\ hs_pc[s] = "recommender"
                /\ SubSeq(directionsRequest'[s], 2, Len(directionsRequest'[s]) - 1)
                     = ownWaypoints(placesRecommendation'[s])]_vars

\* a request whose one waypoint is the place of the invocation's own answer
C15_Witness ==
    \E s \in Slots :
        /\ hs_pc[s] = "directions"
        /\ directionsCalls[s] = 1
        /\ placesRecommendation[s] # Undefined
        /\ placesRecommendation[s].hasPlaces
        /\ Len(placesRecommendation[s].recommendedPlaces) = 1
        /\ Len(directionsRequest[s]) = 3
        /\ directionsRequest[s][2] = placesRecommendation[s].recommendedPlaces[1].coordinate

\* ------------------------------------------------------------------------
\* Properties of the page that splits the route into segments
\* ------------------------------------------------------------------------
\* the slider is moved while a route is loaded
targetChanges ==
    /\ targetDrivingHoursPerSegment' # targetDrivingHoursPerSegment
    /\ directionsData # NullRoute

\* C16: when the target driving hours change while a route is loaded, the
\* segment list becomes segmentRoute(directionsData, new target), whatever
\* the list was before.
C16_SegmentsRecomputed ==
    [][targetChanges =>
          routeSegments' = segmentRoute(directionsData',
                                        targetDrivingHoursPerSegment')]_vars

\* the same, for loaded routes that have a coordinate
C16_RecomputedForRoutesWithCoordinates ==
    [][(targetChanges /\ Len(directionsData.coordinates) > 0) =>
          routeSegments' = segmentRoute(directionsData',
                                        targetDrivingHoursPerSegment')]_vars

\* the slider was moved and the list of a real route was split anew
C16_Recomputed_Witness ==
    /\ directionsData # NullRoute
    /\ Len(directionsData.coordinates) > 0
    /\ targetDrivingHoursPerSegment = 2
    /\ Len(routeSegments) >= 2
    /\ routeSegments = segmentRoute(directionsData, 2)

\* segmentRoute as a function agrees with segmentRoute run step by step
segmentRouteAgrees ==
    sr_pc = "done" /\ sr_directionsData # NullRoute =>
        sr_result = segmentRoute(sr_directionsData, sr_targetHours)

\* ------------------------------------------------------------------------
\* Properties of the change detector
\* ------------------------------------------------------------------------
\* |x| rounded to 4 decimal places, in ten-thousandths of a degree: of the
\* two ten-thousandths around |x| the nearer one, the upper one on a tie
roundedMagnitude(x) ==
    LET below == Abs(x) \div 10
        above == below + 1
    IN  IF (10 * above) - Abs(x) <= Abs(x) - (10 * below) THEN above ELSE below

\* x rounded to 4 decimal places, as a number
rounded(x) == IF x < 0 THEN 0 - roundedMagnitude(x) ELSE roundedMagnitude(x)

\* the two lists have the same length and their end coordinates agree under agree
listsAgree(agree(_, _)) ==
    /\ Len(sc_oldSegments) = Len(sc_newSegments)
    /\ \A k \in 1..Len(sc_oldSegments) :
          /\ agree(sc_oldSegments[k].endCoordinate[1], sc_newSegments[k].endCoordinate[1])
          /\ agree(sc_oldSegments[k].endCoordinate[2], sc_newSegments[k].endCoordinate[2])

agreeRounded(x, y) == rounded(x) = rounded(y)

\* toFixed(4) writes the sign of a negative number that rounds to zero
agreeRendered(x, y) == roundedMagnitude(x) = roundedMagnitude(y) /\ (x < 0) = (y < 0)

\* C17 as stated: the detector reports no change exactly when the lists have
\* the same number of segments and every corresponding pair of end
\* coordinates agrees in longitude and latitude rounded to 4 decimal places.
C17_Original ==
    sc_pc = "done" => (~sc_segmentsChanged <=> listsAgree(agreeRounded))

\* C17: the detector reports no change exactly when the lists have the same
\* number of segments and every corresponding pair of end coordinates has the
\* same toFixed(4) rendering in longitude and latitude: the same value
\* rounded to 4 decimal places and the same sign, also when that value is 0.
C17_SameRendering ==
    sc_pc = "done" => (~sc_segmentsChanged <=> listsAgree(agreeRendered))

\* two different lists told to be unchanged: they agree after rounding
C17_Witness ==
    /\ sc_pc = "done"
    /\ ~sc_segmentsChanged
    /\ Len(sc_oldSegments) = 2
    /\ sc_oldSegments # sc_newSegments

\* ------------------------------------------------------------------------
\* Properties of findDestinationPOIs
\* ------------------------------------------------------------------------
\* the recommender is unconfigured, fails, or returns what cannot be parsed
recommenderUnavailable(reply) ==
    \/ ~reply.configured
    \/ reply.fetch = "rejected"
    \/ ~reply.ok
    \/ ~reply.candidates
    \/ ~reply.parsable

hasRoute(response) ==
    /\ response.fetch = "resolved"
    /\ response.json = "parsed"
    /\ response.hasRoutes
    /\ Len(response.routes) >= 1

\* C19: getDirections never throws; it returns the distance, duration and
\* geometry of the first route when the response holds at least one route,
\* and null otherwise, a failed fetch and an unparsable body included.
C19_RouteOrNull ==
    gd_pc = "done" =>
        /\ ~gd_outcome.threw
        /\ IF hasRoute(gd_response)
           THEN /\ gd_outcome.value # NullRoute
                /\ gd_outcome.value.distance = gd_response.routes[1].distance
                /\ gd_outcome.value.duration = gd_response.routes[1].duration
                /\ gd_outcome.value.coordinates = gd_response.routes[1].coordinates
           ELSE gd_outcome.value = NullRoute

\* fetch rejected and the call returned null
C19_Witness ==
    /\ gd_pc = "done"
    /\ gd_response.fetch = "rejected"
    /\ ~gd_outcome.threw
    /\ gd_outcome.value = NullRoute
    /\ Len(gd_request) = 4

\* ------------------------------------------------------------------------
\* Properties of calculateDistance
\* ------------------------------------------------------------------------
\* C20: calculateDistance is symmetric: the distance from coord1 to coord2
\* equals the distance from coord2 to coord1.
C20_Symmetric ==
    cd_pc = "done" => cd_result = calculateDistance(cd_coord2, cd_coord1)

\* a positive distance between points of different longitude and latitude
C20_Witness ==
    /\ cd_pc = "done"
    /\ cd_coord1[1] # cd_coord2[1]
    /\ cd_coord1[2] # cd_coord2[2]
    /\ cd_coord1[2] # -cd_coord2[2]
    /\ cd_result > 0

\* C21: calculateDistance returns a non-negative number, and returns 0 if
\* and only if the two coordinates are identical.
C21_ZeroIffIdentical ==
    cd_pc = "done" =>
        /\ cd_result >= 0
        /\ (cd_result = 0 <=> cd_coord1 = cd_coord2)

\* the part of C21 that the code keeps: the distance is never negative and
\* identical coordinates have distance 0
C21_NonNegativeZeroOnIdentical ==
    cd_pc = "done" =>
        /\ cd_result >= 0
        /\ (cd_coord1 = cd_coord2 => cd_result = 0)

C21_ZeroOnIdentical_Witness ==
    cd_pc = "done" /\ cd_coord1 = cd_coord2 /\ cd_result = 0

\* ------------------------------------------------------------------------
\* Properties of the planning page: termination
\* ------------------------------------------------------------------------
\* no invocation of handleSubmit is suspended
noSubmissionRunning == \A k \in Slots : hs_pc[k] = "idle"

\* C22: every invocation of handleSubmit terminates with the loading flags
\* cleared: whenever no invocation is running, loading and loadingPOIs are
\* false, and every running invocation eventually returns with both false.
C22_FlagsCleared ==
    /\ [](noSubmissionRunning => ~loading /\ ~loadingPOIs)
    /\ \A k \in Slots :
          (hs_pc[k] # "idle") ~> (hs_pc[k] = "idle" /\ ~loading /\ ~loadingPOIs)

\* a submission has run to full success and the button is enabled again
C22_Witness ==
    /\ noSubmissionRunning
    /\ latest # 0
    /\ directionsData # NullRoute
    /\ -1 \in DOMAIN segmentPOIs
    /\ ~loading
    /\ ~loadingPOIs

\* ------------------------------------------------------------------------
\* Properties of segmentPOIs
\* ------------------------------------------------------------------------
\* the step of invocation s in which fetchDestinationPOIs stores its POIs
fetchReturns(s) == hs_pc[s] = "destinationPOIs" /\ hs_pc'[s] = "idle"

\* every entry under a key other than -1 is the same before and after
otherKeysKept ==
    \A key \in ((DOMAIN segmentPOIs) \cup (DOMAIN segmentPOIs')) \ {-1} :
        /\ key \in DOMAIN segmentPOIs
        /\ key \in DOMAIN segmentPOIs'
        /\ segmentPOIs'[key] = segmentPOIs[key]

\* the recommender's answer holds a place for which valid(_) is true
placeFound(recommendation, valid(_)) ==
    /\ recommendation # Undefined
    /\ recommendation.hasPlaces
    /\ \E k \in 1..Len(recommendation.recommendedPlaces) :
          valid(recommendation.recommendedPlaces[k])

\* C23: fetchDestinationPOIs changes only the entry under key -1 of
\* segmentPOIs; after a successful submission the map holds key -1, and holds
\* key -2 exactly when at least one valid route POI was found (a place whose
\* coordinate is present, of length 2 and not [0,0]).
C23_OnlyDestinationKey ==
    [][\A s \in Slots :
         fetchReturns(s) =>
             /\ otherKeysKept
             /\ -1 \in DOMAIN segmentPOIs'
             /\ (-2 \in DOMAIN segmentPOIs'
                   <=> placeFound(placesRecommendation[s], usableCoordinate))]_vars

\* the part of C23 that the code keeps: only key -1 changes, and key -2 is
\* held exactly when the page's own filter kept a place
C23_OnlyDestinationKeyOfKeptPlaces ==
    [][\A s \in Slots :
         fetchReturns(s) =>
             /\ otherKeysKept
             /\ -1 \in DOMAIN segmentPOIs'
             /\ (-2 \in DOMAIN segmentPOIs'
                   <=> placeFound(placesRecommendation[s], keptAsWaypoint))]_vars

C23_KeptPlaces_Witness ==
    /\ noSubmissionRunning
    /\ DOMAIN segmentPOIs = {-2, -1}
    /\ Len(segmentPOIs[-2]) = 2
    /\ Len(segmentPOIs[-1]) >= 1

\* ------------------------------------------------------------------------
\* Properties of the map's markers
\* ------------------------------------------------------------------------
originMarkersOnMap == {marker \in attached : marker.isOrigin}

destinationMarkersOnMap == {marker \in attached : ~marker.isOrigin}

\* C24: at most one origin marker and at most one destination marker are
\* attached to the map, whatever the map load, the prop updates and the runs
\* of updateMarkers have been.
C24_AtMostOneMarkerEach ==
    /\ Cardinality(originMarkersOnMap) <= 1
    /\ Cardinality(destinationMarkersOnMap) <= 1

\* ------------------------------------------------------------------------
\* Properties of LocationAutocomplete
\* ------------------------------------------------------------------------
\* C25: when searches overlap, an answer to an older query never replaces
\* the suggestions of a newer query, and loading is true whenever a search
\* is still in flight.
C25_NewestSearchWins ==
    /\ [](searches # {} => ac_loading)
    /\ [][shownSearch' >= shownSearch]_vars

\* C26: whenever the suggestion list is non-empty, selectedIndex lies in
\* [-1, suggestions.length - 1], and the index is -1 whenever a new list of
\* suggestions is installed.
C26_IndexInRange ==
    /\ [](suggestions # << >> => selectedIndex \in -1..(Len(suggestions) - 1))
    /\ [][(suggestions' # suggestions /\ suggestions' # << >>)
             => (selectedIndex' = -1)]_vars

\* the last suggestion of a list of two is selected
C26_Witness ==
    /\ Len(suggestions) = 2
    /\ selectedIndex = 1
    /\ shownSearch > 1

\* the step in which a debounce timer fires
timerFires == \E timer \in timers : timers' = timers \ {timer}

\* C30: at most one debounce timer is pending; a search is started only
\* when 300 ms have passed with no change of value; when the trimmed value
\* is then shorter than 2 characters, no search is started and the list of
\* suggestions is cleared.
C30_Debounced ==
    /\ [](Cardinality(timers) <= 1)
    /\ [][(searchesIssued' # searchesIssued) => (sinceChange >= DebounceMs)]_vars
    /\ [][(timerFires /\ Len(trim(ac_value)) < 2) =>
             (searchesIssued' = searchesIssued /\ suggestions' = << >>)]_vars

\* a search for a value typed after an earlier one is in flight
C30_Witness ==
    /\ \E search \in searches : search.query = ac_value
    /\ timersCreated >= 3
    /\ timers = {}
    /\ sinceChange = DebounceMs

\* ------------------------------------------------------------------------
\* Properties of a submission without locations
\* ------------------------------------------------------------------------
locationMissing == originLocation = NoLocation \/ destinationLocation = NoLocation

\* C27: when handleSubmit is invoked while the origin or the destination is
\* not selected, it sets the error message and returns: no call of the
\* recommender, the router or the POI lookup is made, and loading,
\* directionsData, distance, duration and segmentPOIs stay as they are.
C27_MissingLocationOnlySetsError ==
    /\ [][locationMissing =>
             UNCHANGED <<hs_pc, directionsCalls, directionsRequest, poiRequest,
                         loading, directionsData, distance, duration, segmentPOIs>>]_vars
    /\ [][(locationMissing /\ error' # error) =>
             error' = "Please select both origin and destination locations"]_vars

\* the form was submitted with the origin selected and no destination
C27_Witness ==
    /\ originLocation # NoLocation
    /\ destinationLocation = NoLocation
    /\ error = "Please select both origin and destination locations"
    /\ ~loading
    /\ segmentPOIs = EmptyMap

\* ------------------------------------------------------------------------
\* Properties of the filter by category preferences
\* ------------------------------------------------------------------------
\* a category is active
categoryActive(preferences) ==
    /\ preferences # Undefined
    /\ \/ preferences.nationalParks \/ preferences.landmarks \/ preferences.scenicViews
       \/ preferences.food \/ preferences.cities \/ preferences.quirky

\* the places of cf_places that match a keyword of an active category
matchingPlaces ==
    LET matching(place) == placeMatches(place, categoryKeywords(cf_preferences))
    IN  SelectSeq(cf_places, matching)

\* C28: the filter never turns a non-empty list into an empty one: when a
\* place matches a keyword of an active category the result is the matching
\* places in their original order, and when none matches or no category is
\* active the list is returned unchanged.
C28_FilterKeepsSomething ==
    (cf_pc = "done" /\ cf_places # Undefined) =>
        /\ Len(cf_places) > 0 => Len(cf_result) > 0
        /\ IF categoryActive(cf_preferences) /\ Len(matchingPlaces) > 0
           THEN cf_result = matchingPlaces
           ELSE cf_result = cf_places

\* some places were dropped, and the rest kept in order
C28_Witness ==
    /\ cf_pc = "done"
    /\ cf_places # Undefined
    /\ Len(cf_places) = 3
    /\ Len(cf_result) = 2
    /\ cf_result[1] # cf_result[2]

\* no place matched and the list was kept
C28_NoMatch_Witness ==
    /\ cf_pc = "done"
    /\ categoryActive(cf_preferences)
    /\ cf_places # Undefined
    /\ Len(cf_places) > 0
    /\ Len(matchingPlaces) = 0
    /\ cf_result = cf_places

\* ------------------------------------------------------------------------
\* Properties of findSegmentPOIs
\* ------------------------------------------------------------------------
\* C29: findSegmentPOIs terminates, and the map it returns has exactly the
\* keys 0..n-2 for n segments (never the last segment, no key for an empty
\* list), each with a list of exactly one POI.
C29_OnePOIPerSegmentButLast ==
    /\ <>(fs_pc = "done")
    /\ [](fs_pc = "done" =>
            /\ DOMAIN fs_segmentPOIs = 0..(Len(fs_segments) - 2)
            /\ \A idx \in DOMAIN fs_segmentPOIs : Len(fs_segmentPOIs[idx]) = 1)

\* three segments, a found POI for the first and a made-up one for the second
C29_Witness ==
    /\ fs_pc = "done"
    /\ Len(fs_segments) = 3
    /\ DOMAIN fs_segmentPOIs = {0, 1}
    /\ fs_segmentPOIs[0][1].id = <<"poi", 1>>
    /\ fs_segmentPOIs[1][1].id = <<"segment-poi", 1>>

====
